---- MODULE Spec2Model ----
(***************************************************************************)
(* A model of the two structured components of FRIS-NG:                    *)
(*   - HoldStopWorkflowManager (lib/workflow/manager, src/unnamed/part_002 *)
(*     lines 194-661): HOLD/STOP enforcement workflows kept as JSON        *)
(*     snapshots in the audit table.                                       *)
(*   - PolicyEngine (src/src/lib/security/middleware.ts lines 470-944):    *)
(*     weighted-condition rule evaluation over a policy pack.              *)
(* and of the wrappers of its HTTP handlers:                               *)
(*   - createSecureEndpoint (src/src/lib/security/middleware.ts lines      *)
(*     40-81) with withAuth (src/src/middleware/auth.ts);                  *)
(*   - withIdempotency (src/unnamed/part_000).                             *)
(*                                                                         *)
(* Conventions.                                                            *)
(*   - An optional value (a TypeScript `x?: T`) is a sequence: <<>> is     *)
(*     undefined and <<v>> is the value v.                                 *)
(*   - The clock counts TicksPerMinute ticks per minute; Date.now() and    *)
(*     the ISO timestamps derived from it are tick counts.  A handler      *)
(*     reads one clock value: it runs within one tick.                     *)
(*   - Fields of a workflow that every operation only copies (reason,      *)
(*     policy_version, rule_ids, metadata) are left out of the snapshot.   *)
(*   - Every declaration id used exists in the declaration table and the   *)
(*     database accepts every write.                                       *)
(***************************************************************************)
EXTENDS Integers, Sequences, FiniteSets, TLC

(***************************************************************************)
(* Bounds of the model.                                                    *)
(***************************************************************************)
MaxWorkflows == 1
MaxAudit == 6
MaxAdded == 1
MaxStored == 3

(***************************************************************************)
(* Program constants.                                                      *)
(***************************************************************************)
TicksPerMinute == 10
DefaultSlaMinutes == 480
WarningBand == 5

(***************************************************************************)
(* Input domains.                                                          *)
(***************************************************************************)
Instants == {0, 2448, 2880, 4800}
Declarations == {"D1"}
Users == {"officer"}
ActionTypes == {"HOLD", "STOP"}
Priorities == {"LOW", "MEDIUM", "HIGH", "CRITICAL"}
SlaOverrides == {<<>>, <<0>>, <<30>>}
LifecyclePriorities == {"LOW", "MEDIUM"}
LifecycleSlaOverrides == {<<>>}
LevelArgs == {<<>>, <<3>>}
NotesArgs == {<<>>, <<"note">>}
Outcomes == {"APPROVED", "REJECTED", "NEEDS_MORE_INFO"}
UnknownId == 0
WorkflowIds == 1..MaxWorkflows

Undefined == <<>>
Some(v) == <<v>>
IsDefined(o) == o # <<>>
Val(o) == o[1]

MinOf(S) == CHOOSE x \in S : \A y \in S : x <= y

(***************************************************************************)
(* HoldStopWorkflowManager: static SLA configuration.                      *)
(***************************************************************************)
slaConfigs ==
  << [action_type |-> "HOLD", priority |-> "LOW", default_sla_minutes |-> 240,
      escalation_thresholds |-> <<50, 75, 90>>],
     [action_type |-> "HOLD", priority |-> "MEDIUM", default_sla_minutes |-> 480,
      escalation_thresholds |-> <<50, 75, 90>>],
     [action_type |-> "HOLD", priority |-> "HIGH", default_sla_minutes |-> 720,
      escalation_thresholds |-> <<25, 50, 75, 90>>],
     [action_type |-> "STOP", priority |-> "CRITICAL", default_sla_minutes |-> 1440,
      escalation_thresholds |-> <<25, 50, 75, 90>>] >>

\* this.slaConfigs.find(config => config.action_type === a && config.priority === p)
FindSlaConfig(actionType, priority) ==
  LET hits == {i \in 1..Len(slaConfigs) :
                 /\ slaConfigs[i].action_type = actionType
                 /\ slaConfigs[i].priority = priority}
  IN IF hits = {} THEN Undefined ELSE Some(slaConfigs[MinOf(hits)])

\* slaMinutes || slaConfig?.default_sla_minutes || 480   (|| skips 0)
FinalSlaMinutes(slaMinutes, slaConfig) ==
  IF IsDefined(slaMinutes) /\ Val(slaMinutes) # 0 THEN Val(slaMinutes)
  ELSE IF IsDefined(slaConfig) /\ Val(slaConfig).default_sla_minutes # 0
       THEN Val(slaConfig).default_sla_minutes
       ELSE DefaultSlaMinutes

(***************************************************************************)
(* Workflow snapshots and their JSON form.                                 *)
(***************************************************************************)
WorkflowKeys ==
  {"id", "declaration_id", "action_type", "status", "created_at", "expires_at",
   "created_by", "assigned_to", "priority", "sla_minutes", "escalation_level",
   "review_required", "review_notes", "reviewed_by", "reviewed_at",
   "release_authorized_by", "release_authorized_at"}

OptionalKeys ==
  {"assigned_to", "escalation_level", "review_notes", "reviewed_by", "reviewed_at",
   "release_authorized_by", "release_authorized_at"}

\* JSON.stringify(workflow): a property whose value is undefined is dropped
JSONstringify(w) ==
  [k \in {x \in DOMAIN w : x \notin OptionalKeys \/ IsDefined(w[x])} |-> w[k]]

\* JSON.parse(payload): reading a property that is not there gives undefined
JSONparse(p) ==
  [k \in WorkflowKeys |-> IF k \in DOMAIN p THEN p[k] ELSE Undefined]

WorkflowEventId(id) == [wf |-> id, tag |-> "", ts |-> 0]
DerivedEventId(id, tag, t) == [wf |-> id, tag |-> tag, ts |-> t]

\* action: { contains: 'WORKFLOW_' }
ContainsWorkflowTag(action) == action[1] = "WORKFLOW"

(***************************************************************************)
(* The persistence collaborator as the manager uses it.  A store st holds  *)
(*   audit          db.audit rows in insertion order                       *)
(*   declStatus     db.declaration status by declaration id                *)
(*   actionRows     declarations with a HOLD/STOP row in db.action         *)
(*   declUpdates    the db.declaration.update calls, in order              *)
(*   notifications  what sendNotifications was called with                 *)
(*   slaWarnings    what sendSlaWarning was called with                    *)
(***************************************************************************)
AuditCreate(st, row) == [st EXCEPT !.audit = Append(@, row)]

storeWorkflow(st, w) ==
  AuditCreate(st, [event_id |-> WorkflowEventId(w.id),
                   declaration_id |-> Some(w.declaration_id),
                   actor |-> w.created_by,
                   action |-> <<"WORKFLOW", w.action_type, "CREATED">>,
                   payload_hash |-> JSONstringify(w)])

\* db.audit.findFirst({where: {event_id: workflowId, action: {contains: 'WORKFLOW_'}}})
getWorkflow(st, workflowId) ==
  LET hits == {i \in 1..Len(st.audit) :
                 /\ st.audit[i].event_id = WorkflowEventId(workflowId)
                 /\ ContainsWorkflowTag(st.audit[i].action)}
  IN IF hits = {} THEN Undefined
     ELSE Some(JSONparse(st.audit[MinOf(hits)].payload_hash))

updateWorkflow(st, w, t) ==
  AuditCreate(st, [event_id |-> DerivedEventId(w.id, "update", t),
                   declaration_id |-> Some(w.declaration_id),
                   actor |-> "system",
                   action |-> <<"WORKFLOW", w.action_type, "UPDATED">>,
                   payload_hash |-> JSONstringify(w)])

\* getActiveWorkflows that returns every workflow as it was stored at creation
getActiveWorkflows_AllStored(st) ==
  LET stored == SelectSeq(st.audit, LAMBDA row : row.event_id.tag = "" /\ ContainsWorkflowTag(row.action))
  IN [i \in 1..Len(stored) |-> JSONparse(stored[i].payload_hash)]

\* placeholder in the source: always the empty list
getActiveWorkflows(st) == <<>>

\* logWorkflowAction that writes no second entry of a type for a workflow
logWorkflowAction_Once(st, workflowId, actionType, performedBy, notes, metadata, t) ==
  IF \E i \in 1..Len(st.audit) :
        /\ st.audit[i].action = <<"WORKFLOW", "ACTION", actionType>>
        /\ st.audit[i].payload_hash.workflow_id = workflowId
  THEN st
  ELSE AuditCreate(st, [event_id |-> DerivedEventId(workflowId, actionType, t),
                        declaration_id |-> Undefined,
                        actor |-> performedBy,
                        action |-> <<"WORKFLOW", "ACTION", actionType>>,
                        payload_hash |-> [workflow_id |-> workflowId,
                                          action_type |-> actionType,
                                          notes |-> notes,
                                          metadata |-> metadata,
                                          timestamp |-> t]])

logWorkflowAction(st, workflowId, actionType, performedBy, notes, metadata, t) ==
  AuditCreate(st, [event_id |-> DerivedEventId(workflowId, actionType, t),
                   declaration_id |-> Undefined,
                   actor |-> performedBy,
                   action |-> <<"WORKFLOW", "ACTION", actionType>>,
                   payload_hash |-> [workflow_id |-> workflowId,
                                     action_type |-> actionType,
                                     notes |-> notes,
                                     metadata |-> metadata,
                                     timestamp |-> t]])

sendNotifications(st, w, eventType) ==
  [st EXCEPT !.notifications =
     Append(@, [workflow_id |-> w.id, event |-> eventType, status |-> w.status])]

sendSlaWarning(st, w, threshold) ==
  [st EXCEPT !.slaWarnings = Append(@, [workflow_id |-> w.id, threshold |-> threshold])]

updateDeclarationStatus(st, declarationId, status) ==
  [st EXCEPT !.declStatus[declarationId] = status,
             !.declUpdates = Append(@, [declaration_id |-> declarationId, status |-> status])]

\* db.action.findMany({... action in ['HOLD','STOP']}).length > 0
checkForAdverseFindings(st, declarationId) == declarationId \in st.actionRows

(***************************************************************************)
(* The operations of the manager as functions of the store: each returns   *)
(* the store it leaves and what the caller gets ("true", or the message    *)
(* of the Error it throws).                                                *)
(***************************************************************************)
\* createHoldStopWorkflow with review_required set for every action type
NewWorkflow_ReviewAlways(id, declarationId, actionType, createdBy, priority, slaMinutes, assignedTo, t) ==
  LET slaConfig == FindSlaConfig(actionType, priority)
      finalSlaMinutes == FinalSlaMinutes(slaMinutes, slaConfig)
  IN [k \in WorkflowKeys |->
        CASE k = "id" -> id
          [] k = "declaration_id" -> declarationId
          [] k = "action_type" -> actionType
          [] k = "status" -> "ACTIVE"
          [] k = "created_at" -> t
          [] k = "expires_at" -> t + finalSlaMinutes * TicksPerMinute
          [] k = "created_by" -> createdBy
          [] k = "assigned_to" -> assignedTo
          [] k = "priority" -> priority
          [] k = "sla_minutes" -> finalSlaMinutes
          [] k = "review_required" -> TRUE
          [] OTHER -> Undefined]

NewWorkflow(id, declarationId, actionType, createdBy, priority, slaMinutes, assignedTo, t) ==
  LET slaConfig == FindSlaConfig(actionType, priority)
      finalSlaMinutes == FinalSlaMinutes(slaMinutes, slaConfig)
  IN [k \in WorkflowKeys |->
        CASE k = "id" -> id
          [] k = "declaration_id" -> declarationId
          [] k = "action_type" -> actionType
          [] k = "status" -> "ACTIVE"
          [] k = "created_at" -> t
          [] k = "expires_at" -> t + finalSlaMinutes * TicksPerMinute
          [] k = "created_by" -> createdBy
          [] k = "assigned_to" -> assignedTo
          [] k = "priority" -> priority
          [] k = "sla_minutes" -> finalSlaMinutes
          [] k = "review_required" -> (actionType = "STOP")
          [] OTHER -> Undefined]

\* createHoldStopWorkflow that stores the new workflow as PENDING
createHoldStopWorkflow_Pending(st, id, declarationId, actionType, createdBy, priority, slaMinutes, assignedTo, t) ==
  LET w == [NewWorkflow(id, declarationId, actionType, createdBy, priority, slaMinutes, assignedTo, t)
              EXCEPT !["status"] = "PENDING"]
      s1 == storeWorkflow(st, w)
      s2 == logWorkflowAction(s1, w.id, "CREATE", createdBy, "Workflow created", Undefined, t)
      s3 == sendNotifications(s2, w, "created")
  IN [st |-> s3, ret |-> "true", workflow |-> w]

createHoldStopWorkflow(st, id, declarationId, actionType, createdBy, priority, slaMinutes, assignedTo, t) ==
  LET w == NewWorkflow(id, declarationId, actionType, createdBy, priority, slaMinutes, assignedTo, t)
      s1 == storeWorkflow(st, w)
      s2 == logWorkflowAction(s1, w.id, "CREATE", createdBy, "Workflow created", Undefined, t)
      s3 == sendNotifications(s2, w, "created")
  IN [st |-> s3, ret |-> "true", workflow |-> w]

\* releaseWorkflow that logs the attempt before it looks the workflow up
releaseWorkflow_LogsAttempt(st, workflowId, authorizedBy, reason, notes, t) ==
  LET s0 == logWorkflowAction(st, workflowId, "RELEASE", authorizedBy, reason,
                              Some([notes |-> notes]), t)
      found == getWorkflow(s0, workflowId)
  IN IF ~IsDefined(found) THEN [st |-> s0, ret |-> "Workflow not found"]
     ELSE IF Val(found).status # "ACTIVE"
     THEN [st |-> s0, ret |-> "Workflow is not active and cannot be released"]
     ELSE
       LET w == [Val(found) EXCEPT !["status"] = "RELEASED",
                                   !["release_authorized_by"] = Some(authorizedBy),
                                   !["release_authorized_at"] = Some(t),
                                   !["review_notes"] = notes]
           s1 == updateWorkflow(s0, w, t)
           s3 == sendNotifications(s1, w, "released")
           s4 == updateDeclarationStatus(s3, w.declaration_id, "RELEASED")
       IN [st |-> s4, ret |-> "true"]

releaseWorkflow(st, workflowId, authorizedBy, reason, notes, t) ==
  LET found == getWorkflow(st, workflowId)
  IN IF ~IsDefined(found) THEN [st |-> st, ret |-> "Workflow not found"]
     ELSE IF Val(found).status # "ACTIVE"
     THEN [st |-> st, ret |-> "Workflow is not active and cannot be released"]
     ELSE
       LET w == [Val(found) EXCEPT !["status"] = "RELEASED",
                                   !["release_authorized_by"] = Some(authorizedBy),
                                   !["release_authorized_at"] = Some(t),
                                   !["review_notes"] = notes]
           s1 == updateWorkflow(st, w, t)
           s2 == logWorkflowAction(s1, w.id, "RELEASE", authorizedBy, reason,
                                   Some([notes |-> notes]), t)
           s3 == sendNotifications(s2, w, "released")
           s4 == updateDeclarationStatus(s3, w.declaration_id, "RELEASED")
       IN [st |-> s4, ret |-> "true"]

\* newLevel || (workflow.escalation_level || 0) + 1
NextEscalationLevel(newLevel, current) ==
  IF IsDefined(newLevel) /\ Val(newLevel) # 0 THEN Val(newLevel)
  ELSE (IF IsDefined(current) /\ Val(current) # 0 THEN Val(current) ELSE 0) + 1

\* escalateWorkflow that logs the escalation as done by "system"
escalateWorkflow_LogsSystem(st, workflowId, escalatedBy, reason, newLevel, t) ==
  LET found == getWorkflow(st, workflowId)
  IN IF ~IsDefined(found) THEN [st |-> st, ret |-> "Workflow not found"]
     ELSE IF Val(found).status # "ACTIVE"
     THEN [st |-> st, ret |-> "Workflow is not active and cannot be escalated"]
     ELSE
       LET level == NextEscalationLevel(newLevel, Val(found).escalation_level)
           w == [Val(found) EXCEPT !["escalation_level"] = Some(level),
                                   !["status"] = "ESCALATED"]
           s1 == updateWorkflow(st, w, t)
           s2 == logWorkflowAction(s1, w.id, "ESCALATE", "system", reason,
                                   Some([escalation_level |-> level]), t)
           s3 == sendNotifications(s2, w, "escalated")
       IN [st |-> s3, ret |-> "true"]

escalateWorkflow(st, workflowId, escalatedBy, reason, newLevel, t) ==
  LET found == getWorkflow(st, workflowId)
  IN IF ~IsDefined(found) THEN [st |-> st, ret |-> "Workflow not found"]
     ELSE IF Val(found).status # "ACTIVE"
     THEN [st |-> st, ret |-> "Workflow is not active and cannot be escalated"]
     ELSE
       LET level == NextEscalationLevel(newLevel, Val(found).escalation_level)
           w == [Val(found) EXCEPT !["escalation_level"] = Some(level),
                                   !["status"] = "ESCALATED"]
           s1 == updateWorkflow(st, w, t)
           s2 == logWorkflowAction(s1, w.id, "ESCALATE", escalatedBy, reason,
                                   Some([escalation_level |-> level]), t)
           s3 == sendNotifications(s2, w, "escalated")
       IN [st |-> s3, ret |-> "true"]

\* reviewWorkflow whose APPROVED outcome starts the SLA window again
reviewWorkflow_RenewsWindow(st, workflowId, reviewedBy, outcome, notes, t) ==
  LET found == getWorkflow(st, workflowId)
  IN IF ~IsDefined(found) THEN [st |-> st, ret |-> "Workflow not found"]
     ELSE
       LET w0 == [Val(found) EXCEPT !["reviewed_by"] = Some(reviewedBy),
                                    !["reviewed_at"] = Some(t),
                                    !["review_notes"] = Some(notes)]
           w == CASE outcome = "APPROVED" ->
                       [w0 EXCEPT !["status"] = "ACTIVE",
                                  !["expires_at"] = t + w0.sla_minutes * TicksPerMinute]
                  [] outcome = "REJECTED" ->
                       [w0 EXCEPT !["status"] = "RELEASED",
                                  !["release_authorized_by"] = Some(reviewedBy),
                                  !["release_authorized_at"] = Some(t)]
                  [] OTHER -> w0
           s1 == updateWorkflow(st, w, t)
           s2 == logWorkflowAction(s1, w.id, "REVIEW", reviewedBy, <<"Review outcome", outcome>>,
                                   Some([outcome |-> outcome, notes |-> notes]), t)
           s3 == sendNotifications(s2, w, "reviewed")
       IN [st |-> s3, ret |-> "true"]

reviewWorkflow(st, workflowId, reviewedBy, outcome, notes, t) ==
  LET found == getWorkflow(st, workflowId)
  IN IF ~IsDefined(found) THEN [st |-> st, ret |-> "Workflow not found"]
     ELSE
       LET w0 == [Val(found) EXCEPT !["reviewed_by"] = Some(reviewedBy),
                                    !["reviewed_at"] = Some(t),
                                    !["review_notes"] = Some(notes)]
           w == CASE outcome = "APPROVED" -> [w0 EXCEPT !["status"] = "ACTIVE"]
                  [] outcome = "REJECTED" ->
                       [w0 EXCEPT !["status"] = "RELEASED",
                                  !["release_authorized_by"] = Some(reviewedBy),
                                  !["release_authorized_at"] = Some(t)]
                  [] OTHER -> w0
           s1 == updateWorkflow(st, w, t)
           s2 == logWorkflowAction(s1, w.id, "REVIEW", reviewedBy, <<"Review outcome", outcome>>,
                                   Some([outcome |-> outcome, notes |-> notes]), t)
           s3 == sendNotifications(s2, w, "reviewed")
       IN [st |-> s3, ret |-> "true"]

\* slaPercent >= threshold && slaPercent < threshold + 5, with
\* slaPercent = (slaMs - timeUntilExpiration) / slaMs * 100, in exact arithmetic
InWarningBand(w, threshold, t) ==
  LET slaTicks == w.sla_minutes * TicksPerMinute
      elapsed == slaTicks - (w.expires_at - t)
  IN /\ elapsed * 100 >= threshold * slaTicks
     /\ elapsed * 100 < (threshold + WarningBand) * slaTicks

\* the for-loop over escalation_thresholds with its break: the first threshold in the band
FirstThresholdInBand(w, thresholds, t) ==
  LET hits == {i \in 1..Len(thresholds) : InWarningBand(w, thresholds[i], t)}
  IN IF hits = {} THEN Undefined ELSE Some(thresholds[MinOf(hits)])

\* the body of the sweep loop for one workflow of the active list
SweepWorkflow(st, w0, t) ==
  IF w0.expires_at <= t
  THEN LET w == [w0 EXCEPT !["status"] = "EXPIRED"]
           s1 == updateWorkflow(st, w, t)
           s2 == logWorkflowAction(s1, w.id, "EXPIRE", "system",
                                   "Workflow expired due to SLA", Undefined, t)
           s3 == sendNotifications(s2, w, "expired")
       IN IF w.action_type = "HOLD" /\ ~checkForAdverseFindings(s3, w.declaration_id)
          THEN releaseWorkflow(s3, w.id, "system", "Auto-released",
                               Some("Automatically released"), t)
          ELSE [st |-> s3, ret |-> "true"]
  ELSE LET slaConfig == FindSlaConfig(w0.action_type, w0.priority)
           hit == IF IsDefined(slaConfig)
                  THEN FirstThresholdInBand(w0, Val(slaConfig).escalation_thresholds, t)
                  ELSE Undefined
       IN [st |-> IF IsDefined(hit) THEN sendSlaWarning(st, w0, Val(hit)) ELSE st,
           ret |-> "true"]

RECURSIVE SweepFrom(_, _, _, _)
SweepFrom(st, active, i, t) ==
  IF i > Len(active) THEN [st |-> st, ret |-> "true"]
  ELSE LET r == SweepWorkflow(st, active[i], t)
       IN IF r.ret # "true" THEN r ELSE SweepFrom(r.st, active, i + 1, t)

checkExpiredWorkflows(st, t) == SweepFrom(st, getActiveWorkflows(st), 1, t)

(***************************************************************************)
(* PolicyEngine: JavaScript values as the engine handles them.             *)
(* A value is [t, n, s, items]: t is its type tag; n the number, in        *)
(* hundredths (0.85 is 85), when t = "num"; s the characters when          *)
(* t = "str"; items the elements when t = "arr" and the value is a         *)
(* condition value.  Objects and arrays inside a context are nodes of the  *)
(* context tree (t = "obj" or "arr"); arrays of a context hold objects.    *)
(***************************************************************************)
JsValue(t, n, s, items) == [t |-> t, n |-> n, s |-> s, items |-> items]
Undef == JsValue("undefined", 0, <<>>, <<>>)
Null == JsValue("null", 0, <<>>, <<>>)
Num(n) == JsValue("num", n, <<>>, <<>>)
Str(s) == JsValue("str", 0, s, <<>>)
Arr(items) == JsValue("arr", 0, <<>>, items)
Obj == JsValue("obj", 0, <<>>, <<>>)
NaN == JsValue("nan", 0, <<>>, <<>>)

Digits == <<"0", "1", "2", "3", "4", "5", "6", "7", "8", "9">>
DigitOf(c) == (CHOOSE d \in 1..10 : Digits[d] = c) - 1
IsDigit(c) == \E d \in 1..10 : Digits[d] = c

RECURSIVE ParseDigits(_, _)
ParseDigits(s, acc) ==
  IF s = <<>> THEN acc ELSE ParseDigits(Tail(s), acc * 10 + DigitOf(Head(s)))

\* Number(v) for the values of the model: a string of digits, the empty string,
\* null and the empty array are numbers, every other non-number is NaN
JsNumber(v, children) ==
  CASE v.t = "num" -> v
    [] v.t = "null" -> Num(0)
    [] v.t = "str" ->
         IF \A i \in 1..Len(v.s) : IsDigit(v.s[i]) THEN Num(ParseDigits(v.s, 0) * 100) ELSE NaN
    [] v.t = "arr" -> IF children = 0 /\ v.items = <<>> THEN Num(0) ELSE NaN
    [] OTHER -> NaN

RECURSIVE NatToString(_)
NatToString(n) ==
  IF n < 10 THEN <<Digits[n + 1]>> ELSE NatToString(n \div 10) \o <<Digits[(n % 10) + 1]>>

\* String(n) of a non-negative number held in hundredths: "90", "0.85", "0.9"
NumToString(n) ==
  LET whole == n \div 100
      frac == n % 100
  IN IF frac = 0 THEN NatToString(whole)
     ELSE IF frac % 10 = 0 THEN NatToString(whole) \o <<".">> \o <<Digits[(frac \div 10) + 1]>>
     ELSE NatToString(whole) \o <<".">> \o <<Digits[(frac \div 10) + 1], Digits[(frac % 10) + 1]>>

\* String(v)
JsString(v, children) ==
  CASE v.t = "str" -> v.s
    [] v.t = "num" -> NumToString(v.n)
    [] v.t = "undefined" -> <<"u", "n", "d", "e", "f", "i", "n", "e", "d">>
    [] v.t = "null" -> <<"n", "u", "l", "l">>
    [] v.t = "obj" -> <<"[", "o", "b", "j", "e", "c", "t", " ", "O", "b", "j", "e", "c", "t", "]">>
    [] v.t = "arr" -> IF children = 0 THEN <<>> ELSE <<"[", "o", "b", "j", "e", "c", "t", " ", "O", "b", "j", "e", "c", "t", "]">>
    [] OTHER -> <<"N", "a", "N">>

\* String.prototype.includes
Includes(hay, needle) ==
  \E i \in 0..Len(hay) : i + Len(needle) <= Len(hay) /\ SubSeq(hay, i + 1, i + Len(needle)) = needle

\* === between a context value and a condition value: objects and arrays are never
\* the same object as a value of the rule
StrictEquals(a, b) ==
  /\ a.t = b.t
  /\ a.t \in {"undefined", "null", "num", "str"}
  /\ a.n = b.n
  /\ a.s = b.s

(***************************************************************************)
(* A context is a tree: a function from the paths that exist in it to the  *)
(* value at the path.  The root is the context object itself.              *)
(***************************************************************************)
ChildCount(context, path) ==
  Cardinality({p \in DOMAIN context : Len(p) = Len(path) + 1 /\ SubSeq(p, 1, Len(path)) = path})

\* value[part]: the property, or undefined when the object does not have it
Property(context, path, part) ==
  IF (path \o <<part>>) \in DOMAIN context THEN context[path \o <<part>>] ELSE Undef

\* getFieldValue: walk the parts of fieldPath.split('.'); a step from a value that
\* is not a truthy object gives undefined for the whole path
RECURSIVE WalkPath(_, _, _, _)
WalkPath(context, parts, path, value) ==
  IF parts = <<>> THEN [value |-> value, path |-> path]
  ELSE IF value.t \in {"obj", "arr"}
       THEN WalkPath(context, Tail(parts), path \o <<Head(parts)>>,
                     Property(context, path, Head(parts)))
       ELSE [value |-> Undef, path |-> path]

getFieldValue(context, fieldPath) == WalkPath(context, fieldPath, <<>>, Obj)

\* evaluateCondition on the value found at the field
evaluateCondition(condition, found, context) ==
  LET fieldValue == found.value
      children == ChildCount(context, found.path)
      lhs == JsNumber(fieldValue, children)
      rhs == JsNumber(condition.value, Len(condition.value.items))
  IN CASE condition.operator = "equals" -> StrictEquals(fieldValue, condition.value)
       [] condition.operator = "greater_than" ->
            lhs.t = "num" /\ rhs.t = "num" /\ lhs.n > rhs.n
       [] condition.operator = "less_than" ->
            lhs.t = "num" /\ rhs.t = "num" /\ lhs.n < rhs.n
       [] condition.operator = "contains" ->
            Includes(JsString(fieldValue, children),
                     JsString(condition.value, Len(condition.value.items)))
       [] condition.operator = "in" ->
            /\ condition.value.t = "arr"
            /\ \E i \in 1..Len(condition.value.items) :
                 StrictEquals(fieldValue, condition.value.items[i])
       [] condition.operator = "not_in" ->
            /\ condition.value.t = "arr"
            /\ ~\E i \in 1..Len(condition.value.items) :
                  StrictEquals(fieldValue, condition.value.items[i])
       [] OTHER -> FALSE

\* condition.weight || 1.0, in tenths
ConditionWeight(condition) ==
  IF IsDefined(condition.weight) /\ Val(condition.weight) # 0 THEN Val(condition.weight) ELSE 10

RECURSIVE SumWeights(_, _, _)
SumWeights(conditions, context, matchedOnly) ==
  IF conditions = <<>> THEN 0
  ELSE LET c == Head(conditions)
           counts == ~matchedOnly \/ evaluateCondition(c, getFieldValue(context, c.field), context)
       IN (IF counts THEN ConditionWeight(c) ELSE 0) + SumWeights(Tail(conditions), context, matchedOnly)

RECURSIVE Gcd(_, _)
Gcd(a, b) == IF b = 0 THEN a ELSE Gcd(b, a % b)

\* a confidence is the fraction num/den in lowest terms
Fraction(num, den) == IF num = 0 THEN [num |-> 0, den |-> 1]
                      ELSE [num |-> num \div Gcd(num, den), den |-> den \div Gcd(num, den)]
FractionGreater(a, b) == a.num * b.den > b.num * a.den
\* the confidence of the rule seen last
FractionMax_Latest(a, b) == b
FractionMax(a, b) == IF FractionGreater(b, a) THEN b ELSE a

\* evaluateRule: confidence = matchedWeight / totalWeight, triggered iff confidence > 0.5
evaluateRule(rule, context) ==
  LET totalWeight == SumWeights(rule.conditions, context, FALSE)
      matchedWeight == SumWeights(rule.conditions, context, TRUE)
      confidence == IF totalWeight > 0 THEN Fraction(matchedWeight, totalWeight) ELSE Fraction(0, 1)
      triggered == FractionGreater(confidence, Fraction(1, 2))
  IN [triggered |-> triggered,
      actions |-> IF triggered THEN rule.actions ELSE <<>>,
      confidence |-> confidence,
      reason |-> IF triggered THEN rule.description ELSE "not triggered"]

\* JSON.stringify(action.parameters): undefined stays undefined, and a property
\* whose value is undefined is dropped
SerializeParameters(parameters) ==
  IF ~IsDefined(parameters) THEN Undefined
  ELSE Some(SelectSeq(Val(parameters), LAMBDA kv : kv[2].t # "undefined"))

\* a key that leaves the parameters out
ActionKey_TypeOnly(action) == <<action.type, "-", Undefined>>

\* `${action.type}-${JSON.stringify(action.parameters)}`
ActionKey(action) == <<action.type, "-", SerializeParameters(action.parameters)>>

\* actions.filter with the Set of keys seen so far
RECURSIVE DedupFrom(_, _)
DedupFrom(actions, seen) ==
  IF actions = <<>> THEN <<>>
  ELSE IF ActionKey(Head(actions)) \in seen THEN DedupFrom(Tail(actions), seen)
       ELSE <<Head(actions)>> \o DedupFrom(Tail(actions), seen \cup {ActionKey(Head(actions))})

deduplicateActions(actions) == DedupFrom(actions, {})

\* a sort step that puts a rule in front of the rules of its own priority
RECURSIVE InsertByPriority_BeforeEqual(_, _)
InsertByPriority_BeforeEqual(sorted, rule) ==
  IF sorted = <<>> THEN <<rule>>
  ELSE IF Head(sorted).priority < rule.priority
       THEN <<Head(sorted)>> \o InsertByPriority_BeforeEqual(Tail(sorted), rule)
       ELSE <<rule>> \o sorted

\* insert a rule behind every rule of priority <= its own: a stable sort step
RECURSIVE InsertByPriority(_, _)
InsertByPriority(sorted, rule) ==
  IF sorted = <<>> THEN <<rule>>
  ELSE IF Head(sorted).priority <= rule.priority
       THEN <<Head(sorted)>> \o InsertByPriority(Tail(sorted), rule)
       ELSE <<rule>> \o sorted

RECURSIVE SortByPriority(_)
SortByPriority(rules) ==
  IF rules = <<>> THEN <<>>
  ELSE InsertByPriority(SortByPriority(SubSeq(rules, 1, Len(rules) - 1)), rules[Len(rules)])

\* [...rules].filter(rule => rule.enabled).sort((a, b) => a.priority - b.priority)
SortedEnabledRules(pack) == SortByPriority(SelectSeq(pack.rules, LAMBDA r : r.enabled))

NoRiskAction ==
  [type |-> "ALLOW",
   parameters |-> Some(<< <<"reason", Str(<<"N", "o", " ", "p", "o", "l", "i", "c", "y", " ", "r", "u", "l", "e", "s", " ", "t", "r", "i", "g", "g", "e", "r", "e", "d", " ", "-", " ", "s", "t", "a", "n", "d", "a", "r", "d", " ", "p", "r", "o", "c", "e", "s", "s", "i", "n", "g">>)>>, <<"channel", Str(<<"G", "R", "E", "E", "N">>)>> >>)]

NoRiskResult ==
  [triggered |-> FALSE, rules |-> <<>>, actions |-> <<NoRiskAction>>,
   confidence |-> Fraction(1, 10), reason |-> <<"No risk detected">>]

\* the loop of evaluate over the sorted rules
RECURSIVE EvaluateFrom(_, _, _)
EvaluateFrom(sortedRules, context, acc) ==
  IF sortedRules = <<>> THEN acc
  ELSE LET rule == Head(sortedRules)
           ruleResult == evaluateRule(rule, context)
       IN EvaluateFrom(Tail(sortedRules), context,
            IF ruleResult.triggered
            THEN [triggeredRules |-> Append(acc.triggeredRules, rule),
                  actions |-> acc.actions \o ruleResult.actions,
                  maxConfidence |-> FractionMax(acc.maxConfidence, ruleResult.confidence),
                  reasons |-> Append(acc.reasons, ruleResult.reason)]
            ELSE acc)

\* reasons.join("; ")
RECURSIVE JoinReasons(_)
JoinReasons(reasons) ==
  IF Len(reasons) <= 1 THEN reasons
  ELSE <<Head(reasons), "; ">> \o JoinReasons(Tail(reasons))

evaluate(pack, context) ==
  LET acc == EvaluateFrom(SortedEnabledRules(pack), context,
                          [triggeredRules |-> <<>>, actions |-> <<>>,
                           maxConfidence |-> Fraction(0, 1), reasons |-> <<>>])
  IN IF Len(acc.triggeredRules) = 0 THEN NoRiskResult
     ELSE [triggered |-> TRUE,
           rules |-> acc.triggeredRules,
           actions |-> deduplicateActions(acc.actions),
           confidence |-> acc.maxConfidence,
           reason |-> JoinReasons(acc.reasons)]

(***************************************************************************)
(* The rules of defaultPolicyPack.  A rule is [id, description, enabled,   *)
(* priority, conditions, actions]; a field is the list of the parts of     *)
(* its dot path; weights are in tenths; parameters are the properties of   *)
(* the parameters object in the order they are written.                    *)
(***************************************************************************)
UVAL_SEVERE ==
  [id |-> "UVAL_SEVERE",
   description |-> "Detect severe undervaluation compared to reference price bands",
   enabled |-> TRUE,
   priority |-> 1,
   conditions |->
    << [field |-> <<"riskScores", "undervaluation">>, operator |-> "greater_than",
        value |-> Num(85),
        weight |-> Some(10)],
       [field |-> <<"items", "0", "invoice_value_usd">>, operator |-> "less_than",
        value |-> Num(100000),
        weight |-> Some(5)] >>,
   actions |->
    << [type |-> "HOLD",
        parameters |-> Some(<< <<"ttl", Num(72000)>>,
                           <<"reason", Str(<<"S", "e", "v", "e", "r", "e", " ", "u", "n", "d", "e", "r", "v", "a", "l", "u", "a", "t", "i", "o", "n", " ", "d", "e", "t", "e", "c", "t", "e", "d", " ", "-", " ", "m", "a", "n", "u", "a", "l", " ", "r", "e", "v", "i", "e", "w", " ", "r", "e", "q", "u", "i", "r", "e", "d">>)>>,
                           <<"escalationLevel", Str(<<"V", "A", "L", "U", "A", "T", "I", "O", "N">>)>> >>)] >>]

DOC_FORGERY_HIGH ==
  [id |-> "DOC_FORGERY_HIGH",
   description |-> "High confidence document forgery detection",
   enabled |-> TRUE,
   priority |-> 1,
   conditions |->
    << [field |-> <<"riskScores", "doc_forgery">>, operator |-> "greater_than",
        value |-> Num(80),
        weight |-> Some(10)] >>,
   actions |->
    << [type |-> "STOP",
        parameters |-> Some(<< <<"ttl", Num(144000)>>,
                           <<"reason", Str(<<"H", "i", "g", "h", " ", "c", "o", "n", "f", "i", "d", "e", "n", "c", "e", " ", "d", "o", "c", "u", "m", "e", "n", "t", " ", "f", "o", "r", "g", "e", "r", "y", " ", "d", "e", "t", "e", "c", "t", "e", "d">>)>>,
                           <<"escalationLevel", Str(<<"E", "N", "F", "O", "R", "C", "E", "M", "E", "N", "T">>)>> >>)] >>]

NETWORK_RISK_HIGH ==
  [id |-> "NETWORK_RISK_HIGH",
   description |-> "Detect high-risk network patterns and entity relationships",
   enabled |-> TRUE,
   priority |-> 2,
   conditions |->
    << [field |-> <<"riskScores", "network_risk">>, operator |-> "greater_than",
        value |-> Num(75),
        weight |-> Some(10)],
       [field |-> <<"items", "0", "declared_hs">>, operator |-> "in",
        value |-> Arr(<<Str(<<"8", "7", "0", "3">>), Str(<<"2", "7", "1", "0">>), Str(<<"2", "4", "0", "2">>), Str(<<"2", "2", "0", "8">>), Str(<<"8", "5", "1", "7">>)>>),
        weight |-> Some(8)] >>,
   actions |->
    << [type |-> "HOLD",
        parameters |-> Some(<< <<"ttl", Num(48000)>>,
                           <<"reason", Str(<<"H", "i", "g", "h", " ", "n", "e", "t", "w", "o", "r", "k", " ", "r", "i", "s", "k", " ", "d", "e", "t", "e", "c", "t", "e", "d", " ", "-", " ", "i", "n", "v", "e", "s", "t", "i", "g", "a", "t", "e", " ", "e", "n", "t", "i", "t", "y", " ", "r", "e", "l", "a", "t", "i", "o", "n", "s", "h", "i", "p", "s">>)>>,
                           <<"escalationLevel", Str(<<"E", "N", "F", "O", "R", "C", "E", "M", "E", "N", "T">>)>> >>)] >>]

ORIGIN_FHIGH_RISK ==
  [id |-> "ORIGIN_FHIGH_RISK",
   description |-> "Detect shipments from high-risk origin countries",
   enabled |-> TRUE,
   priority |-> 3,
   conditions |->
    << [field |-> <<"riskScores", "origin_fraud">>, operator |-> "greater_than",
        value |-> Num(70),
        weight |-> Some(8)],
       [field |-> <<"items", "0", "country_origin">>, operator |-> "in",
        value |-> Arr(<<Str(<<"C", "N">>), Str(<<"H", "K">>), Str(<<"S", "G">>), Str(<<"A", "E">>)>>),
        weight |-> Some(6)] >>,
   actions |->
    << [type |-> "HOLD",
        parameters |-> Some(<< <<"ttl", Num(36000)>>,
                           <<"reason", Str(<<"H", "i", "g", "h", " ", "r", "i", "s", "k", " ", "o", "r", "i", "g", "i", "n", " ", "d", "e", "t", "e", "c", "t", "e", "d", " ", "-", " ", "e", "n", "h", "a", "n", "c", "e", "d", " ", "s", "c", "r", "u", "t", "i", "n", "y", " ", "r", "e", "q", "u", "i", "r", "e", "d">>)>>,
                           <<"escalationLevel", Str(<<"V", "A", "L", "U", "A", "T", "I", "O", "N">>)>> >>)] >>]

WEEKEND_FILING ==
  [id |-> "WEEKEND_FILING",
   description |-> "Detect declarations filed during weekends or holidays",
   enabled |-> TRUE,
   priority |-> 4,
   conditions |->
    << [field |-> <<"declaration", "lodgement_ts">>, operator |-> "contains",
        value |-> Str(<<"w", "e", "e", "k", "e", "n", "d">>),
        weight |-> Some(5)] >>,
   actions |->
    << [type |-> "NOTIFY",
        parameters |-> Some(<< <<"reason", Str(<<"W", "e", "e", "k", "e", "n", "d", " ", "f", "i", "l", "i", "n", "g", " ", "d", "e", "t", "e", "c", "t", "e", "d", " ", "-", " ", "m", "o", "n", "i", "t", "o", "r", " ", "f", "o", "r", " ", "s", "u", "s", "p", "i", "c", "i", "o", "u", "s", " ", "p", "a", "t", "t", "e", "r", "n", "s">>)>>,
                           <<"notificationLevel", Str(<<"I", "N", "F", "O">>)>> >>)] >>]

LOW_RISK_FAST_TRACK ==
  [id |-> "LOW_RISK_FAST_TRACK",
   description |-> "Fast track low-risk declarations for quick clearance",
   enabled |-> TRUE,
   priority |-> 5,
   conditions |->
    << [field |-> <<"riskScores", "overall">>, operator |-> "less_than",
        value |-> Num(25),
        weight |-> Some(10)],
       [field |-> <<"items", "0", "invoice_value_usd">>, operator |-> "less_than",
        value |-> Num(5000000),
        weight |-> Some(8)] >>,
   actions |->
    << [type |-> "ALLOW",
        parameters |-> Some(<< <<"reason", Str(<<"L", "o", "w", " ", "r", "i", "s", "k", " ", "d", "e", "c", "l", "a", "r", "a", "t", "i", "o", "n", " ", "-", " ", "f", "a", "s", "t", " ", "t", "r", "a", "c", "k", " ", "c", "l", "e", "a", "r", "a", "n", "c", "e">>)>>,
                           <<"channel", Str(<<"G", "R", "E", "E", "N">>)>> >>)] >>]

HIGH_VALUE_SHIPMENT ==
  [id |-> "HIGH_VALUE_SHIPMENT",
   description |-> "Flag high-value shipments for enhanced review",
   enabled |-> TRUE,
   priority |-> 3,
   conditions |->
    << [field |-> <<"items", "0", "invoice_value_usd">>, operator |-> "greater_than",
        value |-> Num(10000000),
        weight |-> Some(7)] >>,
   actions |->
    << [type |-> "HOLD",
        parameters |-> Some(<< <<"ttl", Num(24000)>>,
                           <<"reason", Str(<<"H", "i", "g", "h", " ", "v", "a", "l", "u", "e", " ", "s", "h", "i", "p", "m", "e", "n", "t", " ", "-", " ", "e", "n", "h", "a", "n", "c", "e", "d", " ", "r", "e", "v", "i", "e", "w", " ", "r", "e", "q", "u", "i", "r", "e", "d">>)>>,
                           <<"escalationLevel", Str(<<"V", "A", "L", "U", "A", "T", "I", "O", "N">>)>> >>)] >>]

MISCLASSIFICATION_HIGH ==
  [id |-> "MISCLASSIFICATION_HIGH",
   description |-> "Detect potential HS code misclassification",
   enabled |-> TRUE,
   priority |-> 2,
   conditions |->
    << [field |-> <<"riskScores", "misclassification">>, operator |-> "greater_than",
        value |-> Num(80),
        weight |-> Some(10)] >>,
   actions |->
    << [type |-> "HOLD",
        parameters |-> Some(<< <<"ttl", Num(48000)>>,
                           <<"reason", Str(<<"P", "o", "t", "e", "n", "t", "i", "a", "l", " ", "H", "S", " ", "m", "i", "s", "c", "l", "a", "s", "s", "i", "f", "i", "c", "a", "t", "i", "o", "n", " ", "-", " ", "e", "x", "p", "e", "r", "t", " ", "r", "e", "v", "i", "e", "w", " ", "r", "e", "q", "u", "i", "r", "e", "d">>)>>,
                           <<"escalationLevel", Str(<<"V", "A", "L", "U", "A", "T", "I", "O", "N">>)>> >>)] >>]

\* defaultPolicyPack: its rules in the order of the source; updatedAt is a clock value
defaultPolicyPack ==
  [version |-> "2025-11-02-01",
   rules |-> <<UVAL_SEVERE, DOC_FORGERY_HIGH, NETWORK_RISK_HIGH, ORIGIN_FHIGH_RISK,
               WEEKEND_FILING, LOW_RISK_FAST_TRACK, HIGH_VALUE_SHIPMENT, MISCLASSIFICATION_HIGH>>,
   updatedAt |-> -1]

(***************************************************************************)
(* Input domains of the engine: a second pack for updatePolicyPack, rules  *)
(* for addRule, and the contexts evaluate is called with.                  *)
(***************************************************************************)
TwoOfTwo ==
  [id |-> "TWO",
   description |-> "both of a and b",
   enabled |-> TRUE,
   priority |-> 1,
   conditions |->
    << [field |-> <<"riskScores", "a">>, operator |-> "greater_than",
        value |-> Num(50),
        weight |-> Some(10)],
       [field |-> <<"riskScores", "b">>, operator |-> "greater_than",
        value |-> Num(50),
        weight |-> Some(10)] >>,
   actions |->
    << [type |-> "NOTIFY",
        parameters |-> Some(<< <<"reason", Str(<<"c", "h", "e", "c", "k">>)>>,
                           <<"notificationLevel", Str(<<"I", "N", "F", "O">>)>> >>)] >>]

NoConditions ==
  [id |-> "NONE",
   description |-> "no conditions",
   enabled |-> TRUE,
   priority |-> 1,
   conditions |->
    <<>>,
   actions |->
    << [type |-> "STOP",
        parameters |-> Undefined] >>]

ThreeUnweighted ==
  [id |-> "THREE",
   description |-> "most of a, b and c",
   enabled |-> TRUE,
   priority |-> 2,
   conditions |->
    << [field |-> <<"riskScores", "a">>, operator |-> "greater_than",
        value |-> Num(50),
        weight |-> Undefined],
       [field |-> <<"riskScores", "b">>, operator |-> "greater_than",
        value |-> Num(50),
        weight |-> Undefined],
       [field |-> <<"riskScores", "c">>, operator |-> "greater_than",
        value |-> Num(50),
        weight |-> Undefined] >>,
   actions |->
    << [type |-> "NOTIFY",
        parameters |-> Some(<< <<"reason", Str(<<"c", "h", "e", "c", "k">>)>>,
                           <<"notificationLevel", Str(<<"I", "N", "F", "O">>)>> >>)],
       [type |-> "NOTIFY",
        parameters |-> Some(<< <<"notificationLevel", Str(<<"I", "N", "F", "O">>)>>,
                           <<"reason", Str(<<"c", "h", "e", "c", "k">>)>> >>)],
       [type |-> "NOTIFY",
        parameters |-> Some(<< <<"reason", Str(<<"c", "h", "e", "c", "k">>)>>,
                           <<"ttl", Undef>>,
                           <<"notificationLevel", Str(<<"I", "N", "F", "O">>)>> >>)],
       [type |-> "STOP",
        parameters |-> Undefined] >>]

ZeroWeight ==
  [id |-> "ZERO",
   description |-> "a with weight 0",
   enabled |-> TRUE,
   priority |-> 2,
   conditions |->
    << [field |-> <<"riskScores", "a">>, operator |-> "greater_than",
        value |-> Num(50),
        weight |-> Some(0)] >>,
   actions |->
    << [type |-> "HOLD",
        parameters |-> Some(<< <<"ttl", Num(6000)>> >>)] >>]

Dormant ==
  [id |-> "DORMANT",
   description |-> "b, disabled",
   enabled |-> FALSE,
   priority |-> 1,
   conditions |->
    << [field |-> <<"riskScores", "b">>, operator |-> "greater_than",
        value |-> Num(50),
        weight |-> Some(10)] >>,
   actions |->
    << [type |-> "ESCALATE",
        parameters |-> Some(<< <<"escalationLevel", Str(<<"M", "A", "N", "A", "G", "E", "R">>)>> >>)] >>]

testPolicyPack ==
  [version |-> "test",
   rules |-> <<TwoOfTwo, NoConditions, ZeroWeight, ThreeUnweighted, Dormant>>,
   updatedAt |-> -1]

OriginNotListed ==
  [id |-> "ORIGIN_NOT_LISTED",
   description |-> "origin outside the listed countries",
   enabled |-> TRUE,
   priority |-> 0,
   conditions |->
    << [field |-> <<"items", "0", "country_origin">>, operator |-> "not_in",
        value |-> Arr(<<Str(<<"N", "G">>), Str(<<"G", "H">>)>>),
        weight |-> Undefined] >>,
   actions |->
    << [type |-> "ESCALATE",
        parameters |-> Some(<< <<"escalationLevel", Str(<<"V", "A", "L", "U", "A", "T", "I", "O", "N">>)>> >>)] >>]

UndatedFiling ==
  [id |-> "UNDATED_FILING",
   description |-> "lodgement timestamp mentions def",
   enabled |-> TRUE,
   priority |-> 6,
   conditions |->
    << [field |-> <<"declaration", "lodgement_ts">>, operator |-> "contains",
        value |-> Str(<<"d", "e", "f">>),
        weight |-> Some(10)] >>,
   actions |->
    << [type |-> "NOTIFY",
        parameters |-> Some(<< <<"reason", Str(<<"c", "h", "e", "c", "k">>)>>,
                           <<"notificationLevel", Str(<<"I", "N", "F", "O">>)>> >>)] >>]

AddableRules == {OriginNotListed, UndatedFiling}
PackRefs == {"default", "test"}
RuleIdArgs == {"DOC_FORGERY_HIGH", "THREE", "ORIGIN_NOT_LISTED", "NO_SUCH_RULE"}

\* {declaration: {}, riskScores: {}, items: []}
CtxEmpty ==
  (<<"declaration">> :> Obj) @@
  (<<"riskScores">> :> Obj) @@
  (<<"items">> :> Arr(<<>>))

\* riskScores.doc_forgery = 0.9
CtxForgery ==
  (<<"declaration">> :> Obj) @@
  (<<"riskScores">> :> Obj) @@
  (<<"items">> :> Arr(<<>>)) @@
  (<<"riskScores", "doc_forgery">> :> Num(90))

\* riskScores.doc_forgery = 0.9 and riskScores.misclassification = 0.9, a Chinese item
CtxForgeryMisclass ==
  (<<"declaration">> :> Obj) @@
  (<<"riskScores">> :> Obj) @@
  (<<"items">> :> Arr(<<>>)) @@
  (<<"riskScores", "doc_forgery">> :> Num(90)) @@
  (<<"riskScores", "misclassification">> :> Num(90)) @@
  (<<"items", "0">> :> Obj) @@
  (<<"items", "0", "country_origin">> :> Str(<<"C", "N">>)) @@
  (<<"declaration", "lodgement_ts">> :> Str(<<"2", "0", "2", "5", "-", "1", "1", "-", "0", "2">>))

\* {riskScores: 'high', items: null}: no declaration, no objects to walk into
CtxMalformed ==
  (<<"riskScores">> :> Str(<<"h", "i", "g", "h">>)) @@
  (<<"items">> :> Null)

\* riskScores.a = 0.9, a Nigerian item
CtxA ==
  (<<"declaration">> :> Obj) @@
  (<<"riskScores">> :> Obj) @@
  (<<"items">> :> Arr(<<>>)) @@
  (<<"riskScores", "a">> :> Num(90)) @@
  (<<"items", "0">> :> Obj) @@
  (<<"items", "0", "country_origin">> :> Str(<<"N", "G">>)) @@
  (<<"declaration", "lodgement_ts">> :> Str(<<"2", "0", "2", "5", "-", "1", "1", "-", "0", "2">>))

\* riskScores.a = riskScores.b = 0.9, a Nigerian item
CtxAB ==
  (<<"declaration">> :> Obj) @@
  (<<"riskScores">> :> Obj) @@
  (<<"items">> :> Arr(<<>>)) @@
  (<<"riskScores", "a">> :> Num(90)) @@
  (<<"riskScores", "b">> :> Num(90)) @@
  (<<"items", "0">> :> Obj) @@
  (<<"items", "0", "country_origin">> :> Str(<<"N", "G">>)) @@
  (<<"declaration", "lodgement_ts">> :> Str(<<"2", "0", "2", "5", "-", "1", "1", "-", "0", "2">>))

Contexts == {CtxEmpty, CtxForgery, CtxForgeryMisclass, CtxMalformed, CtxA, CtxAB}

(***************************************************************************)
(* State.                                                                  *)
(*   db        the store (see above)                                       *)
(*   timers    pending setTimeout callbacks of scheduleExpirationCheck     *)
(*   now       the clock                                                   *)
(*   nextId    the next fresh workflow id                                  *)
(*   lastCall  the last step taken and what it returned or threw           *)
(*   calls     the releaseWorkflow calls in flight, one per caller: where  *)
(*             the call stands between its awaits, and its local workflow  *)
(*   packs     the PolicyPack objects, by reference                        *)
(*   held      the reference the engine holds in this.policyPack           *)
(*   evalOut   the context and the result of the evaluate call, when the   *)
(*             last step was one                                           *)
(*   exchange  the last request served by a wrapped handler: the request,  *)
(*             whether the wrapped handler ran, and the response           *)
(*   processed the requests withIdempotency has processed and stored a     *)
(*             response for: key, endpoint and the body the handler gave   *)
(***************************************************************************)
VARIABLES db, timers, now, nextId, lastCall, calls, packs, held, evalOut,
          exchange, processed

wfVars == <<db, timers, nextId, calls>>
peVars == <<packs, held, evalOut>>
httpVars == <<exchange, processed>>
vars == <<db, timers, now, nextId, lastCall, calls, packs, held, evalOut, exchange, processed>>

\* args: the numeric and the string arguments of the call
Args(sla, level, strs) == [sla |-> sla, level |-> level, strs |-> strs, by |-> ""]
\* the same with the user the call is made for
ArgsBy(sla, level, strs, by) == [sla |-> sla, level |-> level, strs |-> strs, by |-> by]
NoArgs == Args(Undefined, Undefined, <<>>)
Call(op, wf, ret, args) == [op |-> op, wf |-> wf, ret |-> ret, args |-> args]

\* the callers that may have a releaseWorkflow call in flight
Callers == {"first", "second"}

\* a call in flight: pc is the await it stands at; workflow is its local variable;
\* readAt is the number of audit rows there were when its lookup was answered
InFlight(pc, wf, by, workflow, readAt, ret) ==
  [pc |-> pc, wf |-> wf, by |-> by, workflow |-> workflow, readAt |-> readAt, ret |-> ret]
NotCalled == InFlight("idle", UnknownId, "", Undefined, 0, "")

\* audit rows that the calls in flight are still going to write
PendingRows ==
  2 * Cardinality({c \in Callers : calls[c].pc = "update"})
  + Cardinality({c \in Callers : calls[c].pc = "log"})

WfInit ==
  /\ db = [audit |-> <<>>,
           declStatus |-> [d \in Declarations |-> "HELD"],
           declUpdates |-> <<>>,
           actionRows |-> {},
           notifications |-> <<>>,
           slaWarnings |-> <<>>]
  /\ timers = {}
  /\ now = 0
  /\ nextId = 1
  /\ lastCall = Call("init", UnknownId, "true", NoArgs)
  /\ calls = [c \in Callers |-> NotCalled]

NoEval == [context |-> CtxEmpty, result |-> NoRiskResult]

\* new PolicyEngine(defaultPolicyPack)
PeInit ==
  /\ packs = [ref \in PackRefs |-> IF ref = "default" THEN defaultPolicyPack ELSE testPolicyPack]
  /\ held = "default"
  /\ evalOut = NoEval

\* scheduleExpirationCheck: a timer only when the expiry lies ahead
scheduleExpirationCheck(tm, workflowId, expiresAt, t) ==
  IF expiresAt - t > 0 THEN tm \cup {[workflow_id |-> workflowId, at |-> expiresAt]} ELSE tm

Room == Len(db.audit) + PendingRows + 2 <= MaxAudit

CreateWorkflow(d, actionType, createdBy, priority, slaMinutes) ==
  /\ nextId <= MaxWorkflows
  /\ Room
  /\ LET r == createHoldStopWorkflow(db, nextId, d, actionType, createdBy, priority,
                                     slaMinutes, Undefined, now)
     IN /\ db' = r.st
        /\ timers' = scheduleExpirationCheck(timers, nextId, r.workflow.expires_at, now)
        /\ lastCall' = Call("createHoldStopWorkflow", nextId, r.ret,
                           ArgsBy(slaMinutes, Undefined, <<actionType, priority>>, createdBy))
  /\ nextId' = nextId + 1
  /\ UNCHANGED now
  /\ UNCHANGED calls
  /\ UNCHANGED <<peVars, httpVars>>

Release(id, by, notes) ==
  /\ Room
  /\ LET r == releaseWorkflow(db, id, by, "reason", notes, now)
     IN /\ db' = r.st
        /\ lastCall' = Call("releaseWorkflow", id, r.ret, ArgsBy(Undefined, Undefined, notes, by))
  /\ UNCHANGED <<timers, now, nextId>>
  /\ UNCHANGED calls
  /\ UNCHANGED <<peVars, httpVars>>

Escalate(id, by, newLevel) ==
  /\ Room
  /\ LET r == escalateWorkflow(db, id, by, "reason", newLevel, now)
     IN /\ db' = r.st
        /\ lastCall' = Call("escalateWorkflow", id, r.ret, ArgsBy(Undefined, newLevel, <<>>, by))
  /\ UNCHANGED <<timers, now, nextId>>
  /\ UNCHANGED calls
  /\ UNCHANGED <<peVars, httpVars>>

Review(id, by, outcome) ==
  /\ Room
  /\ LET r == reviewWorkflow(db, id, by, outcome, "note", now)
     IN /\ db' = r.st
        /\ lastCall' = Call("reviewWorkflow", id, r.ret, ArgsBy(Undefined, Undefined, <<outcome>>, by))
  /\ UNCHANGED <<timers, now, nextId>>
  /\ UNCHANGED calls
  /\ UNCHANGED <<peVars, httpVars>>

\* the check-expired route: one pass of the sweep
Sweep ==
  /\ LET r == checkExpiredWorkflows(db, now)
     IN /\ db' = r.st
        /\ lastCall' = Call("checkExpiredWorkflows", UnknownId, r.ret, NoArgs)
  /\ UNCHANGED <<timers, now, nextId>>
  /\ UNCHANGED calls
  /\ UNCHANGED <<peVars, httpVars>>

\* a setTimeout callback of scheduleExpirationCheck runs: one pass of the sweep
TimerFire(tm) ==
  /\ tm \in timers
  /\ now >= tm.at
  /\ LET r == checkExpiredWorkflows(db, now)
     IN /\ db' = r.st
        /\ lastCall' = Call("timer", tm.workflow_id, r.ret, NoArgs)
  /\ timers' = timers \ {tm}
  /\ UNCHANGED <<now, nextId>>
  /\ UNCHANGED calls
  /\ UNCHANGED <<peVars, httpVars>>

\* the decision-ingest route records a HOLD/STOP action row for a declaration
RecordAction(d) ==
  /\ d \notin db.actionRows
  /\ db' = [db EXCEPT !.actionRows = @ \cup {d}]
  /\ lastCall' = Call("recordAction", UnknownId, "true", NoArgs)
  /\ UNCHANGED <<timers, now, nextId>>
  /\ UNCHANGED calls
  /\ UNCHANGED <<peVars, httpVars>>

Tick(t) ==
  /\ t > now
  /\ now' = t
  /\ lastCall' = Call("tick", UnknownId, "true", NoArgs)
  /\ UNCHANGED <<db, timers, nextId>>
  /\ UNCHANGED calls
  /\ UNCHANGED <<peVars, httpVars>>

WfNext ==
  \/ \E d \in Declarations, a \in ActionTypes, u \in Users,
          p \in LifecyclePriorities, s \in LifecycleSlaOverrides : CreateWorkflow(d, a, u, p, s)
  \/ \E id \in WorkflowIds \cup {UnknownId}, u \in Users, n \in NotesArgs : Release(id, u, n)
  \/ \E id \in WorkflowIds \cup {UnknownId}, u \in Users, l \in LevelArgs : Escalate(id, u, l)
  \/ \E id \in WorkflowIds \cup {UnknownId}, u \in Users, o \in Outcomes : Review(id, u, o)
  \/ Sweep
  \/ \E tm \in timers : TimerFire(tm)
  \/ \E d \in Declarations : RecordAction(d)
  \/ \E t \in Instants : Tick(t)

\* no request has been served
NoExchange ==
  [via |-> "none", options |-> <<>>, request |-> <<>>, invoked |-> FALSE, response |-> <<>>]

HttpInit ==
  /\ exchange = NoExchange
  /\ processed = {}

Init == WfInit /\ PeInit /\ HttpInit
Next == WfNext
Spec == Init /\ [][Next]_vars

(***************************************************************************)
(* Creation over the whole input domain of createHoldStopWorkflow.         *)
(***************************************************************************)
CreateNext ==
  \/ \E d \in Declarations, a \in ActionTypes, u \in Users, p \in Priorities, s \in SlaOverrides :
       CreateWorkflow(d, a, u, p, s)
  \/ \E t \in Instants : Tick(t)

SpecCreate == Init /\ [][CreateNext]_vars

(***************************************************************************)
(* releaseWorkflow as the event loop runs it: the call gives up control at *)
(* each await, and another call can run between two of its steps.          *)
(*   lookup       await this.getWorkflow, then the two guards and the      *)
(*                assignments to the local workflow                        *)
(*   update       await this.updateWorkflow(workflow)                      *)
(*   log          await this.logWorkflowAction(...)                        *)
(*   notify       await this.sendNotifications(workflow, 'released')       *)
(*   declaration  await this.updateDeclarationStatus(...), return true     *)
(***************************************************************************)
ReleaseLookup(c, id, by) ==
  /\ calls[c].pc = "idle"
  /\ Room
  /\ LET found == getWorkflow(db, id)
         readAt == Len(db.audit)
     IN calls' = [calls EXCEPT ![c] =
          IF ~IsDefined(found)
          THEN InFlight("done", id, by, Undefined, readAt, "Workflow not found")
          ELSE IF Val(found).status # "ACTIVE"
          THEN InFlight("done", id, by, Undefined, readAt,
                        "Workflow is not active and cannot be released")
          ELSE InFlight("update", id, by,
                        Some([Val(found) EXCEPT !["status"] = "RELEASED",
                                                !["release_authorized_by"] = Some(by),
                                                !["release_authorized_at"] = Some(now),
                                                !["review_notes"] = Undefined]),
                        readAt, "")]
  /\ lastCall' = Call("releaseWorkflow:lookup", id, "true", Args(Undefined, Undefined, <<c>>))
  /\ UNCHANGED <<db, timers, now, nextId>>
  /\ UNCHANGED <<peVars, httpVars>>

ReleaseUpdate(c) ==
  /\ calls[c].pc = "update"
  /\ db' = updateWorkflow(db, Val(calls[c].workflow), now)
  /\ calls' = [calls EXCEPT ![c].pc = "log"]
  /\ lastCall' = Call("releaseWorkflow:update", calls[c].wf, "true", Args(Undefined, Undefined, <<c>>))
  /\ UNCHANGED <<timers, now, nextId>>
  /\ UNCHANGED <<peVars, httpVars>>

ReleaseLog(c) ==
  /\ calls[c].pc = "log"
  /\ db' = logWorkflowAction(db, calls[c].wf, "RELEASE", calls[c].by, "reason",
                             Some([notes |-> Undefined]), now)
  /\ calls' = [calls EXCEPT ![c].pc = "notify"]
  /\ lastCall' = Call("releaseWorkflow:log", calls[c].wf, "true", Args(Undefined, Undefined, <<c>>))
  /\ UNCHANGED <<timers, now, nextId>>
  /\ UNCHANGED <<peVars, httpVars>>

ReleaseNotify(c) ==
  /\ calls[c].pc = "notify"
  /\ db' = sendNotifications(db, Val(calls[c].workflow), "released")
  /\ calls' = [calls EXCEPT ![c].pc = "declaration"]
  /\ lastCall' = Call("releaseWorkflow:notify", calls[c].wf, "true", Args(Undefined, Undefined, <<c>>))
  /\ UNCHANGED <<timers, now, nextId>>
  /\ UNCHANGED <<peVars, httpVars>>

ReleaseDeclaration(c) ==
  /\ calls[c].pc = "declaration"
  /\ db' = updateDeclarationStatus(db, Val(calls[c].workflow).declaration_id, "RELEASED")
  /\ calls' = [calls EXCEPT ![c].pc = "done", ![c].ret = "true"]
  /\ lastCall' = Call("releaseWorkflow", calls[c].wf, "true", Args(Undefined, Undefined, <<c>>))
  /\ UNCHANGED <<timers, now, nextId>>
  /\ UNCHANGED <<peVars, httpVars>>

RaceNext ==
  \/ \E d \in Declarations, a \in ActionTypes, u \in Users,
          p \in LifecyclePriorities, s \in LifecycleSlaOverrides : CreateWorkflow(d, a, u, p, s)
  \/ \E c \in Callers, id \in WorkflowIds \cup {UnknownId}, u \in Users : ReleaseLookup(c, id, u)
  \/ \E c \in Callers : ReleaseUpdate(c)
  \/ \E c \in Callers : ReleaseLog(c)
  \/ \E c \in Callers : ReleaseNotify(c)
  \/ \E c \in Callers : ReleaseDeclaration(c)

SpecRace == Init /\ [][RaceNext]_vars

(***************************************************************************)
(* The operations of the PolicyEngine on the pack it holds.                *)
(***************************************************************************)
\* this.policyPack.rules.find(r => r.id === ruleId), as a position (0: not found)
FindRule(pack, ruleId) ==
  LET hits == {i \in 1..Len(pack.rules) : pack.rules[i].id = ruleId}
  IN IF hits = {} THEN 0 ELSE MinOf(hits)

SetEnabled(pack, ruleId, flag, t) ==
  LET i == FindRule(pack, ruleId)
  IN IF i = 0 THEN [pack |-> pack, ret |-> "false"]
     ELSE [pack |-> [pack EXCEPT !.rules[i].enabled = flag, !.updatedAt = t], ret |-> "true"]

enableRule(pack, ruleId, t) == SetEnabled(pack, ruleId, TRUE, t)

\* disableRule that finds the rule and reports success but leaves the flag as it is
disableRule_FlagKept(pack, ruleId, t) ==
  LET i == FindRule(pack, ruleId)
  IN IF i = 0 THEN [pack |-> pack, ret |-> "false"]
     ELSE [pack |-> [pack EXCEPT !.updatedAt = t], ret |-> "true"]

disableRule(pack, ruleId, t) == SetEnabled(pack, ruleId, FALSE, t)

addRule(pack, rule, t) == [pack EXCEPT !.rules = Append(@, rule), !.updatedAt = t]

removeRule(pack, ruleId, t) ==
  LET i == FindRule(pack, ruleId)
  IN IF i = 0 THEN [pack |-> pack, ret |-> "false"]
     ELSE [pack |-> [pack EXCEPT !.rules = SubSeq(@, 1, i - 1) \o SubSeq(@, i + 1, Len(@)),
                                 !.updatedAt = t],
           ret |-> "true"]

\* the positions of the rules of a pack that came in through addRule
AddedRules(pack) ==
  {i \in 1..Len(pack.rules) : \E rule \in AddableRules : pack.rules[i].id = rule.id}

Evaluate(context) ==
  /\ evalOut' = [context |-> context, result |-> evaluate(packs[held], context)]
  /\ lastCall' = Call("evaluate", UnknownId, "true", NoArgs)
  /\ UNCHANGED <<packs, held, now>>
  /\ UNCHANGED <<wfVars, httpVars>>

\* an update that writes the new pack's rules into the pack the engine holds
UpdatePolicyPack_CopiesRules(ref) ==
  /\ packs' = [packs EXCEPT ![held].rules = packs[ref].rules]
  /\ evalOut' = NoEval
  /\ lastCall' = Call("updatePolicyPack", UnknownId, "true", Args(Undefined, Undefined, <<ref>>))
  /\ UNCHANGED <<held, now>>
  /\ UNCHANGED <<wfVars, httpVars>>

\* this.policyPack = newPolicyPack: the engine holds the caller's object
UpdatePolicyPack(ref) ==
  /\ held' = ref
  /\ evalOut' = NoEval
  /\ lastCall' = Call("updatePolicyPack", UnknownId, "true", Args(Undefined, Undefined, <<ref>>))
  /\ UNCHANGED <<packs, now>>
  /\ UNCHANGED <<wfVars, httpVars>>

EnableRule(ruleId) ==
  /\ LET r == enableRule(packs[held], ruleId, now)
     IN /\ packs' = [packs EXCEPT ![held] = r.pack]
        /\ lastCall' = Call("enableRule", UnknownId, r.ret, Args(Undefined, Undefined, <<ruleId>>))
  /\ evalOut' = NoEval
  /\ UNCHANGED <<held, now>>
  /\ UNCHANGED <<wfVars, httpVars>>

DisableRule(ruleId) ==
  /\ LET r == disableRule(packs[held], ruleId, now)
     IN /\ packs' = [packs EXCEPT ![held] = r.pack]
        /\ lastCall' = Call("disableRule", UnknownId, r.ret, Args(Undefined, Undefined, <<ruleId>>))
  /\ evalOut' = NoEval
  /\ UNCHANGED <<held, now>>
  /\ UNCHANGED <<wfVars, httpVars>>

AddRule(rule) ==
  /\ Cardinality(AddedRules(packs[held])) < MaxAdded
  /\ packs' = [packs EXCEPT ![held] = addRule(@, rule, now)]
  /\ lastCall' = Call("addRule", UnknownId, "true", Args(Undefined, Undefined, <<rule.id>>))
  /\ evalOut' = NoEval
  /\ UNCHANGED <<held, now>>
  /\ UNCHANGED <<wfVars, httpVars>>

RemoveRule(ruleId) ==
  /\ LET r == removeRule(packs[held], ruleId, now)
     IN /\ packs' = [packs EXCEPT ![held] = r.pack]
        /\ lastCall' = Call("removeRule", UnknownId, r.ret, Args(Undefined, Undefined, <<ruleId>>))
  /\ evalOut' = NoEval
  /\ UNCHANGED <<held, now>>
  /\ UNCHANGED <<wfVars, httpVars>>

PeNext ==
  \/ \E c \in Contexts : Evaluate(c)
  \/ \E ref \in PackRefs : UpdatePolicyPack(ref)
  \/ \E id \in RuleIdArgs : EnableRule(id)
  \/ \E id \in RuleIdArgs : DisableRule(id)
  \/ \E rule \in AddableRules : AddRule(rule)
  \/ \E id \in RuleIdArgs : RemoveRule(id)

SpecPolicy == Init /\ [][PeNext]_vars

(***************************************************************************)
(* getPolicyPack and what a caller can do with its return value.           *)
(***************************************************************************)
\* { ...this.policyPack }: a new object holding the same property values; the
\* value of rules is the array of the pack at ref, not a copy of it
getPolicyPack(heap, ref) ==
  [own |-> [k \in (DOMAIN heap[ref]) \ {"rules"} |-> heap[ref][k]], rulesOf |-> ref]

MutatedRuleIds == {"DOC_FORGERY_HIGH", "MISCLASSIFICATION_HIGH"}

\* the assignments a caller makes on the returned pack
Mutations ==
  {[kind |-> k, id |-> "", flag |-> FALSE, rule |-> Dormant] : k \in {"version", "rules"}}
  \cup {[kind |-> "push", id |-> "", flag |-> FALSE, rule |-> r] : r \in AddableRules}
  \cup {[kind |-> "enabled", id |-> i, flag |-> f, rule |-> Dormant] :
          i \in MutatedRuleIds, f \in BOOLEAN}
  \cup {[kind |-> k, id |-> i, flag |-> FALSE, rule |-> Dormant] :
          k \in {"conditions", "actions"}, i \in MutatedRuleIds}

\* the heap after the caller applied m to the returned object:
\*   version     returned.version = "x"          (own property of the copy)
\*   rules       returned.rules = []             (own property of the copy)
\*   push        returned.rules.push(rule)
\*   enabled     returned.rules.find(id).enabled = flag
\*   conditions  returned.rules.find(id).conditions.length = 0
\*   actions     returned.rules.find(id).actions.length = 0
MutateReturned(heap, returned, m) ==
  LET ref == returned.rulesOf
      i == FindRule(heap[ref], m.id)
  IN CASE m.kind \in {"version", "rules"} -> heap
       [] m.kind = "push" -> [heap EXCEPT ![ref].rules = Append(@, m.rule)]
       [] i = 0 -> heap
       [] m.kind = "enabled" -> [heap EXCEPT ![ref].rules[i].enabled = m.flag]
       [] m.kind = "conditions" -> [heap EXCEPT ![ref].rules[i].conditions = <<>>]
       [] OTHER -> [heap EXCEPT ![ref].rules[i].actions = <<>>]

\* a caller takes the pack from getPolicyPack and assigns to it
GetPolicyPack(m) ==
  /\ m.kind = "push" => Cardinality(AddedRules(packs[held])) < MaxAdded
  /\ packs' = MutateReturned(packs, getPolicyPack(packs, held), m)
  /\ lastCall' = Call("getPolicyPack", UnknownId, "true",
                      Args(Undefined, Undefined, <<m.kind, m.id>>))
  /\ evalOut' = NoEval
  /\ UNCHANGED <<held, now>>
  /\ UNCHANGED <<wfVars, httpVars>>

AliasNext ==
  \/ \E c \in Contexts : Evaluate(c)
  \/ \E m \in Mutations : GetPolicyPack(m)

SpecAlias == Init /\ [][AliasNext]_vars

(***************************************************************************)
(* createSecureEndpoint.  A handler is a term: the route's own handler or  *)
(* a wrapper around a handler; Invoke runs a term on a request.  A         *)
(* request is [authorization, apiKey]: the Authorization header as         *)
(* <<scheme, token>> and the X-API-Key header, each optional.  env is      *)
(* process.env.API_KEY, optional.  A response is [status, headers, body],  *)
(* headers being the set of header names set on it.                        *)
(***************************************************************************)
Tokens == {"forged", "adminToken", "valuationToken", "execToken"}
AuthorizationHeaders ==
  {Undefined, Some(<<"Basic", "adminToken">>)} \cup {Some(<<"Bearer", t>>) : t \in Tokens}
ApiKeyHeaders == {Undefined, Some("wrong"), Some("secret")}
ApiKeyEnvs == {Undefined, Some("secret")}
Requests == [authorization : AuthorizationHeaders, apiKey : ApiKeyHeaders]
PermissionLists == {{}, {"risk:write"}, {"risk:read", "kpi:read"}}
EndpointOptions ==
  [requiredPermissions : PermissionLists, requireApiKey : BOOLEAN, requireAuth : BOOLEAN]

\* the permissions createUser gives a role
getDefaultPermissions(role) ==
  CASE role = "ADMIN" -> {"*"}
    [] role = "VALUATION" -> {"risk:read", "risk:write", "declaration:read", "declaration:write"}
    [] role = "EXEC_READ" -> {"dashboard:read", "kpi:read"}
    [] OTHER -> {}

\* jwt.verify: the payload of a token this server signed, null for any other
verifyToken(token) ==
  CASE token = "adminToken" -> Some([role |-> "ADMIN", permissions |-> getDefaultPermissions("ADMIN")])
    [] token = "valuationToken" ->
         Some([role |-> "VALUATION", permissions |-> getDefaultPermissions("VALUATION")])
    [] token = "execToken" ->
         Some([role |-> "EXEC_READ", permissions |-> getDefaultPermissions("EXEC_READ")])
    [] OTHER -> Undefined

hasPermission(userPermissions, requiredPermission) ==
  "*" \in userPermissions \/ requiredPermission \in userPermissions

\* !validApiKey || apiKey === validApiKey
validateApiKey(req, env) == ~IsDefined(env) \/ req.apiKey = env

getSecurityHeaders ==
  {"Content-Security-Policy", "X-Content-Type-Options", "X-Frame-Options", "X-XSS-Protection",
   "Strict-Transport-Security", "Referrer-Policy", "Permissions-Policy"}

\* NextResponse.json(body, {status})
Respond(status, body) == [status |-> status, headers |-> {}, body |-> body]

\* the route's own handler, and the wrappers
Handler == [wrap |-> "handler", inner |-> <<>>, permissions |-> {}]
withSecurityHeaders(handler) ==
  [wrap |-> "withSecurityHeaders", inner |-> <<handler>>, permissions |-> {}]
withAuth(handler, requiredPermissions) ==
  [wrap |-> "withAuth", inner |-> <<handler>>, permissions |-> requiredPermissions]
\* the arrow function createSecureEndpoint builds around validateApiKey
ApiKeyGate(handler) ==
  [wrap |-> "apiKeyGate", inner |-> <<handler>>, permissions |-> {}]
withSecureHandler(handler) ==
  [wrap |-> "withSecureHandler", inner |-> <<handler>>, permissions |-> {}]

\* what a term does with a request: whether the route's handler ran, and the response
RECURSIVE Invoke(_, _, _)
Invoke(h, req, env) ==
  CASE h.wrap = "handler" ->
         [invoked |-> TRUE, response |-> Respond(200, "handled")]
    [] h.wrap = "withSecurityHeaders" ->
         LET r == Invoke(h.inner[1], req, env)
         IN [r EXCEPT !.response.headers = @ \cup getSecurityHeaders]
    [] h.wrap = "withAuth" ->
         IF ~IsDefined(req.authorization) \/ Val(req.authorization)[1] # "Bearer"
         THEN [invoked |-> FALSE,
               response |-> Respond(401, "Missing or invalid authorization header")]
         ELSE LET userPayload == verifyToken(Val(req.authorization)[2])
              IN IF ~IsDefined(userPayload)
                 THEN [invoked |-> FALSE, response |-> Respond(401, "Invalid or expired token")]
                 ELSE IF /\ h.permissions # {}
                         /\ ~\A permission \in h.permissions :
                               hasPermission(Val(userPayload).permissions, permission)
                      THEN [invoked |-> FALSE, response |-> Respond(403, "Insufficient permissions")]
                      ELSE Invoke(h.inner[1], req, env)
    [] h.wrap = "apiKeyGate" ->
         IF ~validateApiKey(req, env)
         THEN [invoked |-> FALSE, response |-> Respond(401, "Invalid or missing API key")]
         ELSE Invoke(h.inner[1], req, env)
    [] OTHER ->
         LET r == Invoke(h.inner[1], req, env)
         IN [r EXCEPT !.response.headers = @ \cup {"X-Request-ID"}]

\* secureHandler is reassigned step by step; the API key step wraps `handler`,
\* the function createSecureEndpoint was given, not the secureHandler built so far
createSecureEndpoint(handler, options) ==
  LET withHeaders == withSecurityHeaders(handler)
      withAuthentication == IF options.requireAuth
                            THEN withAuth(withHeaders, options.requiredPermissions)
                            ELSE withHeaders
      withApiKey == IF options.requireApiKey THEN ApiKeyGate(handler) ELSE withAuthentication
  IN withSecureHandler(withApiKey)

\* a request arrives at an endpoint built with the given options
SecureRequest(options, req, env) ==
  /\ LET r == Invoke(createSecureEndpoint(Handler, options), req, env)
     IN exchange' = [via |-> "createSecureEndpoint",
                     options |-> Some([options |-> options, env |-> env]),
                     request |-> Some(req),
                     invoked |-> r.invoked,
                     response |-> Some(r.response)]
  /\ UNCHANGED <<processed, now, lastCall>>
  /\ UNCHANGED <<wfVars, peVars>>

SecureNext ==
  \E options \in EndpointOptions, req \in Requests, env \in ApiKeyEnvs :
     SecureRequest(options, req, env)

SpecSecure == Init /\ [][SecureNext]_vars

(***************************************************************************)
(* withIdempotency.  A text is [kind, of]: the JSON text of a response     *)
(* body, or any other string.  An Idempotency-Key header is a text a       *)
(* client chose, which may happen to be the JSON text of a body.  The      *)
(* wrapped handler answers 200 with a body of its choice, a JSON object.   *)
(***************************************************************************)
Endpoints == {"ingest", "payments"}
Bodies == {"receipt 1", "receipt 2"}
Plain(s) == [kind |-> "plain", of |-> s]
\* JSON.stringify(responseData)
StringifyResponse(body) == [kind |-> "json", of |-> body]
\* JSON.parse(text): a SyntaxError shows as undefined
ParseResponse(text) == IF text.kind = "json" THEN Some(text.of) ELSE Undefined
IdempotencyKeys ==
  {Undefined, Some(Plain("")), Some(Plain("k1")), Some(StringifyResponse("receipt 1"))}

\* db.audit.findFirst({where: {payload_hash: idempotencyKey, action: `IDEMPOTENT_${endpoint}`}});
\* an error thrown by JSON.parse is caught and answered with isDuplicate: false
checkIdempotency(st, idempotencyKey, endpoint) ==
  LET hits == {i \in 1..Len(st.audit) :
                 /\ st.audit[i].action = <<"IDEMPOTENT", endpoint>>
                 /\ st.audit[i].payload_hash = idempotencyKey}
      parsed == ParseResponse(st.audit[MinOf(hits)].payload_hash)
  IN IF hits # {} /\ IsDefined(parsed)
     THEN [isDuplicate |-> TRUE, existingResponse |-> parsed]
     ELSE [isDuplicate |-> FALSE, existingResponse |-> Undefined]

\* the row holds the serialized response; the key is not written anywhere
storeIdempotentResponse(st, idempotencyKey, endpoint, response) ==
  AuditCreate(st, [event_id |-> <<"idempotent", Len(st.audit) + 1>>,
                   declaration_id |-> Undefined,
                   actor |-> "system",
                   action |-> <<"IDEMPOTENT", endpoint>>,
                   payload_hash |-> StringifyResponse(response)])

\* body is what the wrapped handler answers if it runs.  NextResponse is not
\* imported by this file: where the name is bound the stored response is sent,
\* where it is not the call throws inside try and again inside catch
withIdempotency(st, idempotencyKey, endpoint, body, bound) ==
  IF ~IsDefined(idempotencyKey) \/ Val(idempotencyKey) = Plain("")
  THEN [st |-> st, invoked |-> TRUE, response |-> Respond(200, body)]
  ELSE LET idempotencyResult == checkIdempotency(st, Val(idempotencyKey), endpoint)
       IN IF idempotencyResult.isDuplicate /\ IsDefined(idempotencyResult.existingResponse)
          THEN [st |-> st, invoked |-> FALSE,
                response |-> IF bound THEN Respond(200, Val(idempotencyResult.existingResponse))
                             ELSE Respond(500, "ReferenceError")]
          ELSE [st |-> storeIdempotentResponse(st, Val(idempotencyKey), endpoint, body),
                invoked |-> TRUE,
                response |-> Respond(200, body)]

\* a request arrives at a handler wrapped for the endpoint
IdempotentRequest(idempotencyKey, endpoint, body, bound) ==
  /\ Len(db.audit) < MaxStored
  /\ LET r == withIdempotency(db, idempotencyKey, endpoint, body, bound)
     IN /\ db' = r.st
        /\ exchange' = [via |-> "withIdempotency",
                        options |-> Some(endpoint),
                        request |-> Some(idempotencyKey),
                        invoked |-> r.invoked,
                        response |-> Some(r.response)]
        /\ processed' = IF r.st # db
                        THEN processed \cup {[key |-> idempotencyKey, endpoint |-> endpoint,
                                              body |-> body]}
                        ELSE processed
  /\ UNCHANGED <<timers, nextId, calls, now, lastCall>>
  /\ UNCHANGED peVars

IdempotencyNext ==
  \E idempotencyKey \in IdempotencyKeys, endpoint \in Endpoints, body \in Bodies, bound \in BOOLEAN :
     IdempotentRequest(idempotencyKey, endpoint, body, bound)

SpecIdempotency == Init /\ [][IdempotencyNext]_vars

(***************************************************************************)
(* Reading the audit table: the snapshots and the action entries written   *)
(* for a workflow id, in the order they were written.                      *)
(***************************************************************************)
IsSnapshotRow(row) == row.action[1] = "WORKFLOW" /\ row.action[2] # "ACTION"
IsActionRow(row, tag) == row.action = <<"WORKFLOW", "ACTION", tag>>

SnapshotRows(id) ==
  {i \in 1..Len(db.audit) : IsSnapshotRow(db.audit[i]) /\ db.audit[i].payload_hash.id = id}

ActionRows(id, tag) ==
  {i \in 1..Len(db.audit) :
     IsActionRow(db.audit[i], tag) /\ db.audit[i].payload_hash.workflow_id = id}

MaxOf(S) == CHOOSE x \in S : \A y \in S : x >= y

Created == {id \in WorkflowIds : SnapshotRows(id) # {}}

\* the most recently written snapshot of a workflow
CurrentSnapshot(id) == JSONparse(db.audit[MaxOf(SnapshotRows(id))].payload_hash)
CurrentStatus(id) == CurrentSnapshot(id).status

\* the snapshot written at creation
CreationSnapshot(id) == JSONparse(db.audit[MinOf(SnapshotRows(id))].payload_hash)

\* the escalation levels logged for a workflow, oldest first
RECURSIVE LevelsFrom(_, _)
LevelsFrom(id, i) ==
  IF i > Len(db.audit) THEN <<>>
  ELSE IF i \in ActionRows(id, "ESCALATE")
       THEN <<Val(db.audit[i].payload_hash.metadata).escalation_level>> \o LevelsFrom(id, i + 1)
       ELSE LevelsFrom(id, i + 1)
LoggedLevels(id) == LevelsFrom(id, 1)

(***************************************************************************)
(* C1.  releaseWorkflow succeeds at most once per workflow id: after the   *)
(* first successful release every later release of the same id fails.      *)
(* Each successful release logs one RELEASE action entry.                  *)
(***************************************************************************)
C1_ReleaseAtMostOnce ==
  \A id \in WorkflowIds : Cardinality(ActionRows(id, "RELEASE")) <= 1

(***************************************************************************)
(* C6.  Every snapshot of a workflow, the one written at creation and      *)
(* every one written later, has review_required = TRUE iff its             *)
(* action_type is STOP, and carries the action_type of the creation        *)
(* snapshot.                                                               *)
(***************************************************************************)
C6_ReviewRequiredIffStop ==
  \A id \in Created : \A i \in SnapshotRows(id) :
     LET w == JSONparse(db.audit[i].payload_hash)
     IN /\ w.review_required = (w.action_type = "STOP")
        /\ w.action_type = CreationSnapshot(id).action_type
        /\ w.review_required = CreationSnapshot(id).review_required

\* a STOP workflow and a HOLD workflow situation where a later operation wrote a snapshot
C6_Witness ==
  \E id \in Created :
     /\ Cardinality(SnapshotRows(id)) >= 2
     /\ CreationSnapshot(id).action_type = "STOP"
     /\ CurrentSnapshot(id).review_required = TRUE
     /\ CurrentStatus(id) # "ACTIVE"

(***************************************************************************)
(* C7.  escalateWorkflow without an explicit level takes escalation_level  *)
(* from undefined to 1 on the first call and from 1 to 2 on the second     *)
(* call on the same workflow id.                                           *)
(***************************************************************************)
C7_EscalateIncrements ==
  (/\ lastCall.op = "escalateWorkflow"
   /\ lastCall.ret = "true"
   /\ ~IsDefined(lastCall.args.level))
  => LET levels == LoggedLevels(lastCall.wf)
     IN /\ Len(levels) = 1 => levels[1] = 1
        /\ (Len(levels) = 2 /\ levels[1] = 1) => levels[2] = 2

(***************************************************************************)
(* C8.  createHoldStopWorkflow sets sla_minutes to the override when one   *)
(* is supplied, else to the default of the matching SLA config, else to    *)
(* 480; expires_at is the creation time plus sla_minutes minutes.          *)
(***************************************************************************)
C8_SlaResolution ==
  lastCall.op = "createHoldStopWorkflow"
  => LET w == CreationSnapshot(lastCall.wf)
         config == FindSlaConfig(lastCall.args.strs[1], lastCall.args.strs[2])
     IN /\ w.sla_minutes =
             (IF IsDefined(lastCall.args.sla) THEN Val(lastCall.args.sla)
              ELSE IF IsDefined(config) THEN Val(config).default_sla_minutes
              ELSE 480)
        /\ w.expires_at = w.created_at + w.sla_minutes * TicksPerMinute

(***************************************************************************)
(* C9.  In one pass of checkExpiredWorkflows, for every workflow that is   *)
(* ACTIVE and not yet expired, a warning for a configured threshold t is   *)
(* sent iff t <= slaPercent < t + 5, and at most one warning is sent for   *)
(* the workflow in the pass.                                               *)
(***************************************************************************)
C9_SweepWarnings ==
  [][lastCall'.op = "checkExpiredWorkflows"
     => \A id \in Created :
          LET w == CurrentSnapshot(id)
              config == FindSlaConfig(w.action_type, w.priority)
              sent == SubSeq(db'.slaWarnings, Len(db.slaWarnings) + 1, Len(db'.slaWarnings))
              sentFor == {i \in 1..Len(sent) : sent[i].workflow_id = id}
              slaTicks == w.sla_minutes * TicksPerMinute
              elapsed == now - w.created_at
          IN (w.status = "ACTIVE" /\ w.expires_at > now /\ IsDefined(config))
             => /\ Cardinality(sentFor) <= 1
                /\ \A k \in 1..Len(Val(config).escalation_thresholds) :
                     LET t == Val(config).escalation_thresholds[k]
                     IN (\E i \in sentFor : sent[i].threshold = t)
                        <=> (t * slaTicks <= elapsed * 100 /\ elapsed * 100 < (t + 5) * slaTicks)
    ]_vars

(***************************************************************************)
(* C10.  escalateWorkflow returns true only when the workflow exists and   *)
(* its current status, the status of its latest snapshot, is ACTIVE.       *)
(***************************************************************************)
C10_EscalateOnlyFromActive ==
  [][(lastCall'.op = "escalateWorkflow" /\ lastCall'.ret = "true")
     => (lastCall'.wf \in Created /\ CurrentStatus(lastCall'.wf) = "ACTIVE")
    ]_vars

(***************************************************************************)
(* Reading an evaluate call: the pack it ran on is the held pack, since    *)
(* every other step of the engine replaces lastCall.                       *)
(***************************************************************************)
Evaluated == lastCall.op = "evaluate"
EvaluatedPack == packs[held]
EnabledPositions(pack) == {i \in 1..Len(pack.rules) : pack.rules[i].enabled}
InRules(result, rule) == \E j \in 1..Len(result.rules) : result.rules[j] = rule

ParameterOf(action, key) ==
  LET hits == {i \in 1..Len(Val(action.parameters)) : Val(action.parameters)[i][1] = key}
  IN IF hits = {} THEN Undef ELSE Val(action.parameters)[MinOf(hits)][2]

IsNoRiskResult(result) ==
  /\ result.triggered = FALSE
  /\ result.rules = <<>>
  /\ Len(result.actions) = 1
  /\ result.actions[1].type = "ALLOW"
  /\ IsDefined(result.actions[1].parameters)
  /\ ParameterOf(result.actions[1], "channel") = Str(<<"G", "R", "E", "E", "N">>)
  /\ result.confidence = Fraction(1, 10)
  /\ result.reason = <<"No risk detected">>

AllFieldsAbsent(pack, context) ==
  \A i \in EnabledPositions(pack) : \A k \in 1..Len(pack.rules[i].conditions) :
     getFieldValue(context, pack.rules[i].conditions[k].field).value = Undef

(***************************************************************************)
(* C2.  If no enabled rule of the held pack triggers, evaluate returns     *)
(* triggered = false, no rules, the single action ALLOW with channel       *)
(* GREEN, confidence 0.1 and reason "No risk detected"; and this is the    *)
(* result for every context in which every field referenced by an enabled  *)
(* rule is absent.                                                         *)
(***************************************************************************)
C2_NoTriggerFallback ==
  Evaluated =>
    /\ (\A i \in EnabledPositions(EvaluatedPack) :
          ~evaluateRule(EvaluatedPack.rules[i], evalOut.context).triggered)
       => IsNoRiskResult(evalOut.result)
    /\ AllFieldsAbsent(EvaluatedPack, evalOut.context) => IsNoRiskResult(evalOut.result)

(***************************************************************************)
(* C3.  An enabled rule triggers iff its matched weight is strictly more   *)
(* than half of its total weight, where every condition contributes its    *)
(* weight, or 1.0 when no weight is given, to the total, and only the      *)
(* matching conditions contribute to the matched weight.  Weights are in   *)
(* tenths.                                                                 *)
(***************************************************************************)
GivenWeight(condition) == IF IsDefined(condition.weight) THEN Val(condition.weight) ELSE 10

RECURSIVE GivenWeightSum(_, _, _)
GivenWeightSum(conditions, context, matchedOnly) ==
  IF conditions = <<>> THEN 0
  ELSE LET c == Head(conditions)
           counts == ~matchedOnly \/ evaluateCondition(c, getFieldValue(context, c.field), context)
       IN (IF counts THEN GivenWeight(c) ELSE 0)
          + GivenWeightSum(Tail(conditions), context, matchedOnly)

C3_TriggerIffMajorityWeight ==
  Evaluated =>
    \A i \in EnabledPositions(EvaluatedPack) :
       LET rule == EvaluatedPack.rules[i]
       IN InRules(evalOut.result, rule)
          <=> (2 * GivenWeightSum(rule.conditions, evalOut.context, TRUE)
                 > GivenWeightSum(rule.conditions, evalOut.context, FALSE))

(***************************************************************************)
(* C4.  For a context that only rule R of the pack would match, evaluate   *)
(* is triggered before disableRule(R.id) and not triggered after it, and   *)
(* enableRule(R.id) after that gives the result of before; and no rule in  *)
(* the rules list of an evaluate result is disabled.                       *)
(***************************************************************************)
OnlyMatch(pack, i, context) ==
  /\ evaluateRule(pack.rules[i], context).triggered
  /\ \A j \in 1..Len(pack.rules) : j # i => ~evaluateRule(pack.rules[j], context).triggered

C4_DisableRemovesRule ==
  /\ [][(lastCall'.op = "disableRule" /\ lastCall'.ret = "true")
        => LET id == lastCall'.args.strs[1]
               before == packs[held]
               after == packs'[held]
           IN \A context \in Contexts : \A i \in 1..Len(before.rules) :
                (before.rules[i].id = id /\ before.rules[i].enabled /\ OnlyMatch(before, i, context))
                => /\ evaluate(before, context).triggered
                   /\ ~evaluate(after, context).triggered
                   /\ evaluate(enableRule(after, id, now).pack, context) = evaluate(before, context)
       ]_vars
  /\ [](Evaluated => \A j \in 1..Len(evalOut.result.rules) :
                        /\ evalOut.result.rules[j].enabled
                        /\ \E i \in EnabledPositions(EvaluatedPack) :
                             EvaluatedPack.rules[i] = evalOut.result.rules[j])

\* disableRule has just switched off the only rule that matches some context
C4_Witness ==
  /\ lastCall.op = "disableRule"
  /\ lastCall.ret = "true"
  /\ \E context \in Contexts : \E i \in 1..Len(packs[held].rules) :
       /\ packs[held].rules[i].id = lastCall.args.strs[1]
       /\ ~packs[held].rules[i].enabled
       /\ OnlyMatch(packs[held], i, context)
       /\ ~evaluate(packs[held], context).triggered
       /\ evaluate(enableRule(packs[held], lastCall.args.strs[1], now).pack, context).triggered

(***************************************************************************)
(* C5.  In a triggered result no two actions have the same type and the    *)
(* same serialized parameters, and the actions are the first occurrences   *)
(* of each (type, serialized parameters) pair in the concatenation of the  *)
(* triggered rules' actions, rules taken in priority order.                *)
(***************************************************************************)
RECURSIVE ConcatActions(_)
ConcatActions(rules) ==
  IF rules = <<>> THEN <<>> ELSE Head(rules).actions \o ConcatActions(Tail(rules))

SameAction(a, b) ==
  a.type = b.type /\ SerializeParameters(a.parameters) = SerializeParameters(b.parameters)

C5_ActionsDeduplicated ==
  (Evaluated /\ evalOut.result.triggered) =>
    LET result == evalOut.result
        all == ConcatActions(result.rules)
        first == {i \in 1..Len(all) : \A j \in 1..(i - 1) : ~SameAction(all[j], all[i])}
        nth(k) == CHOOSE i \in first : Cardinality({j \in first : j <= i}) = k
    IN /\ \A i, j \in 1..Len(result.rules) :
            i < j => result.rules[i].priority <= result.rules[j].priority
       /\ \A i, j \in 1..Len(result.actions) :
            i # j => ~SameAction(result.actions[i], result.actions[j])
       /\ Len(result.actions) = Cardinality(first)
       /\ \A k \in 1..Len(result.actions) : result.actions[k] = all[nth(k)]

\* two triggered rules produced the same action and the result holds it once
C5_Witness ==
  /\ Evaluated
  /\ evalOut.result.triggered
  /\ \E i, j \in 1..Len(evalOut.result.rules) :
       /\ i < j
       /\ \E a \in 1..Len(evalOut.result.rules[i].actions) :
            \E b \in 1..Len(evalOut.result.rules[j].actions) :
               SameAction(evalOut.result.rules[i].actions[a], evalOut.result.rules[j].actions[b])
  /\ Len(evalOut.result.actions) < Len(ConcatActions(evalOut.result.rules))

(***************************************************************************)
(* C11.  A releaseWorkflow or escalateWorkflow call that fails, because    *)
(* the workflow id is unknown or the workflow is not ACTIVE, mutates       *)
(* nothing: no snapshot and no action entry is written, no notification    *)
(* is sent and no declaration status changes.                              *)
(***************************************************************************)
C11_FailureMutatesNothing ==
  [][(lastCall'.op \in {"releaseWorkflow", "escalateWorkflow"} /\ lastCall'.ret # "true")
     => /\ lastCall'.ret \in {"Workflow not found",
                              "Workflow is not active and cannot be released",
                              "Workflow is not active and cannot be escalated"}
        /\ db'.audit = db.audit
        /\ db'.notifications = db.notifications
        /\ db'.declStatus = db.declStatus
        /\ db' = db
        /\ timers' = timers
    ]_vars

\* a release has just failed while a workflow with its entries is in the store
C11_Witness ==
  /\ lastCall.op = "releaseWorkflow"
  /\ lastCall.ret = "Workflow not found"
  /\ Created # {}
  /\ db.notifications # <<>>

(***************************************************************************)
(* C12.  RELEASED is terminal: once the current status of a workflow, the  *)
(* status of its latest snapshot, is RELEASED, no release, escalate,       *)
(* review or sweep step makes it anything else.                            *)
(***************************************************************************)
C12_ReleasedIsTerminal ==
  [][\A id \in Created : CurrentStatus(id) = "RELEASED" => CurrentStatus(id)' = "RELEASED"]_vars

\* the same readers on a given store
SnapshotRowsIn(st, id) ==
  {i \in 1..Len(st.audit) : IsSnapshotRow(st.audit[i]) /\ st.audit[i].payload_hash.id = id}
LatestSnapshotIn(st, id) == JSONparse(st.audit[MaxOf(SnapshotRowsIn(st, id))].payload_hash)
ActionRowsIn(st, id, tag) ==
  {i \in 1..Len(st.audit) :
     IsActionRow(st.audit[i], tag) /\ st.audit[i].payload_hash.workflow_id = id}

(***************************************************************************)
(* C14.  A successful reviewWorkflow leaves the workflow ACTIVE when the   *)
(* outcome is APPROVED; RELEASED, with release_authorized_by the           *)
(* reviewer, when it is REJECTED; and with the current status it had       *)
(* before the call, the one its latest snapshot carried, when it is        *)
(* NEEDS_MORE_INFO.  In all three cases the new snapshot records           *)
(* reviewed_by and review_notes.  The reviewer and the notes are read from *)
(* the REVIEW entry the call logged last.                                  *)
(***************************************************************************)
C14_ReviewOutcomes ==
  [][(lastCall'.op = "reviewWorkflow" /\ lastCall'.ret = "true")
     => LET id == lastCall'.wf
            outcome == lastCall'.args.strs[1]
            logged == db'.audit[Len(db'.audit)]
            after == LatestSnapshotIn(db', id)
        IN /\ outcome = "APPROVED" => after.status = "ACTIVE"
           /\ outcome = "REJECTED" =>
                /\ after.status = "RELEASED"
                /\ after.release_authorized_by = Some(logged.actor)
           /\ outcome = "NEEDS_MORE_INFO" => after.status = LatestSnapshotIn(db, id).status
           /\ after.reviewed_by = Some(logged.actor)
           /\ after.review_notes = Some(Val(logged.payload_hash.metadata).notes)
    ]_vars

(***************************************************************************)
(* C15.  A pass of the sweep over an ACTIVE HOLD workflow whose            *)
(* expires_at has passed and whose declaration has no HOLD/STOP action     *)
(* rows ends without error and leaves the workflow RELEASED with           *)
(* release_authorized_by = "system" and the declaration RELEASED.  A pass  *)
(* never writes a release by "system" for a STOP workflow.                 *)
(***************************************************************************)
SweepStep == lastCall'.op \in {"checkExpiredWorkflows", "timer"}

C15_SweepAutoRelease ==
  [][SweepStep
     => \A id \in Created :
          LET w == CurrentSnapshot(id)
          IN /\ (/\ w.status = "ACTIVE"
                 /\ w.expires_at <= now
                 /\ w.action_type = "HOLD"
                 /\ w.declaration_id \notin db.actionRows)
                => /\ lastCall'.ret = "true"
                   /\ LatestSnapshotIn(db', id).status = "RELEASED"
                   /\ LatestSnapshotIn(db', id).release_authorized_by = Some("system")
                   /\ db'.declStatus[w.declaration_id] = "RELEASED"
             /\ w.action_type = "STOP"
                => /\ ActionRowsIn(db', id, "RELEASE") = ActionRowsIn(db, id, "RELEASE")
                   /\ LatestSnapshotIn(db', id).release_authorized_by # Some("system")
    ]_vars

(***************************************************************************)
(* C16.  After a pass of the sweep at or after the expires_at of a         *)
(* workflow whose current status is ACTIVE, the status of that workflow    *)
(* is EXPIRED, or RELEASED by auto-release, and an EXPIRE entry by         *)
(* "system" exists for it.                                                 *)
(***************************************************************************)
C16_SweepExpires ==
  [][SweepStep
     => \A id \in Created :
          (CurrentStatus(id) = "ACTIVE" /\ CurrentSnapshot(id).expires_at <= now)
          => /\ LatestSnapshotIn(db', id).status \in {"EXPIRED", "RELEASED"}
             /\ \E i \in ActionRowsIn(db', id, "EXPIRE") : db'.audit[i].actor = "system"
    ]_vars

(***************************************************************************)
(* C17.  expires_at and sla_minutes are fixed at creation: every snapshot  *)
(* of a workflow, whichever operation wrote it, carries the expires_at     *)
(* and the sla_minutes of the creation snapshot.                           *)
(***************************************************************************)
C17_WindowFixedAtCreation ==
  \A id \in Created : \A i \in SnapshotRows(id) :
     LET w == JSONparse(db.audit[i].payload_hash)
     IN /\ w.expires_at = CreationSnapshot(id).expires_at
        /\ w.sla_minutes = CreationSnapshot(id).sla_minutes
        /\ w.expires_at = w.created_at + w.sla_minutes * TicksPerMinute

\* a review after creation time has approved a workflow and set it ACTIVE again
C17_Witness ==
  \E id \in Created :
     /\ Cardinality(SnapshotRows(id)) >= 2
     /\ CurrentStatus(id) = "ACTIVE"
     /\ IsDefined(CurrentSnapshot(id).reviewed_at)
     /\ Val(CurrentSnapshot(id).reviewed_at) > CreationSnapshot(id).created_at

(***************************************************************************)
(* C19.  The lookup used by release, escalate and review returns the most  *)
(* recently written snapshot of the workflow id: its status,               *)
(* escalation_level and review and release fields are those written by     *)
(* the last transition.                                                    *)
(***************************************************************************)
TransitionKeys ==
  {"status", "escalation_level", "review_notes", "reviewed_by", "reviewed_at",
   "release_authorized_by", "release_authorized_at"}

C19_LookupReturnsLatest ==
  \A id \in Created :
     /\ IsDefined(getWorkflow(db, id))
     /\ \A k \in TransitionKeys : Val(getWorkflow(db, id))[k] = CurrentSnapshot(id)[k]

(***************************************************************************)
(* C13.  A caller cannot change engine state through the value returned    *)
(* by getPolicyPack: after any assignment to the returned pack, to its     *)
(* top-level fields, its rules list, or a rule's enabled flag, conditions  *)
(* or actions, evaluate gives on every context the result it gave before.  *)
(***************************************************************************)
C13_ReturnedPackIsACopy ==
  [][lastCall'.op = "getPolicyPack"
     => \A context \in Contexts :
          evaluate(packs'[held'], context) = evaluate(packs[held], context)
    ]_vars

(***************************************************************************)
(* C18.  A condition whose field path does not resolve in the context      *)
(* does not match, whatever its operator: in an evaluate call no condition *)
(* of an enabled rule whose field is absent counts as matched.             *)
(***************************************************************************)
C18_AbsentFieldNeverMatches ==
  Evaluated =>
    \A i \in EnabledPositions(EvaluatedPack) :
      \A k \in 1..Len(EvaluatedPack.rules[i].conditions) :
         LET condition == EvaluatedPack.rules[i].conditions[k]
             found == getFieldValue(evalOut.context, condition.field)
         IN found.value = Undef => ~evaluateCondition(condition, found, evalOut.context)

(***************************************************************************)
(* C20.  Two concurrent releaseWorkflow calls on one ACTIVE workflow can   *)
(* both read ACTIVE before either writes RELEASED, and then both return    *)
(* true, leaving two RELEASE entries and two declaration-status updates    *)
(* for the one workflow.  As an invariant: nothing a call does after its   *)
(* lookup depends on the other call, so every call that passed the guards  *)
(* writes its own snapshot and its own RELEASE entry, makes its own        *)
(* declaration update and returns true.                                    *)
(***************************************************************************)
PassedGuard(c, id) == calls[c].wf = id /\ IsDefined(calls[c].workflow)
LookedUpBeforeAnyWrite(c, id) == Cardinality(SnapshotRows(id) \cap (1..calls[c].readAt)) = 1

C20_ConcurrentReleasesBothSucceed ==
  /\ \A id \in WorkflowIds :
       LET past(pcs) == {c \in Callers : PassedGuard(c, id) /\ calls[c].pc \in pcs}
       IN /\ past({"update", "log", "notify", "declaration", "done"}) # {} => id \in Created
          /\ id \in Created =>
               Cardinality(SnapshotRows(id)) =
                 1 + Cardinality(past({"log", "notify", "declaration", "done"}))
          /\ Cardinality(ActionRows(id, "RELEASE")) =
               Cardinality(past({"notify", "declaration", "done"}))
          /\ \A c \in past({"done"}) : calls[c].ret = "true"
  /\ \A d \in Declarations :
       Cardinality({i \in 1..Len(db.declUpdates) :
                      /\ db.declUpdates[i].declaration_id = d
                      /\ db.declUpdates[i].status = "RELEASED"})
       = Cardinality({c \in Callers :
                        /\ calls[c].pc = "done"
                        /\ IsDefined(calls[c].workflow)
                        /\ Val(calls[c].workflow).declaration_id = d})

\* both calls read ACTIVE before either wrote, and both have returned true
C20_Witness ==
  \E id \in Created :
     /\ \A c \in Callers :
          /\ PassedGuard(c, id)
          /\ LookedUpBeforeAnyWrite(c, id)
          /\ calls[c].pc = "done"
          /\ calls[c].ret = "true"
     /\ Cardinality(ActionRows(id, "RELEASE")) = 2
     /\ Len(db.declUpdates) = 2
     /\ \A i \in 1..Len(db.declUpdates) : db.declUpdates[i].status = "RELEASED"

(***************************************************************************)
(* C21.  Every successful create, release, escalate and review step (and   *)
(* every expiry the sweep makes) appends exactly one workflow-action       *)
(* entry carrying the workflow id, the tag of the operation and the        *)
(* performer; and no step deletes or rewrites an entry: the audit rows     *)
(* before a step are a prefix of the rows after it.                        *)
(***************************************************************************)
TagOf(op) ==
  CASE op = "createHoldStopWorkflow" -> "CREATE"
    [] op = "releaseWorkflow" -> "RELEASE"
    [] op = "escalateWorkflow" -> "ESCALATE"
    [] op = "reviewWorkflow" -> "REVIEW"
    [] OTHER -> "EXPIRE"

IsAnyActionRow(row) == row.action[1] = "WORKFLOW" /\ row.action[2] = "ACTION"

C21_AuditAppendOnly ==
  [][/\ Len(db'.audit) >= Len(db.audit)
     /\ SubSeq(db'.audit, 1, Len(db.audit)) = db.audit
     /\ LET new == SubSeq(db'.audit, Len(db.audit) + 1, Len(db'.audit))
            logged == {i \in 1..Len(new) : IsAnyActionRow(new[i])}
        IN /\ (/\ lastCall'.op \in {"createHoldStopWorkflow", "releaseWorkflow",
                                    "escalateWorkflow", "reviewWorkflow"}
               /\ lastCall'.ret = "true")
              => /\ Cardinality(logged) = 1
                 /\ \A i \in logged :
                      /\ new[i].action = <<"WORKFLOW", "ACTION", TagOf(lastCall'.op)>>
                      /\ new[i].payload_hash.workflow_id = lastCall'.wf
                      /\ new[i].payload_hash.action_type = TagOf(lastCall'.op)
                      /\ new[i].actor = lastCall'.args.by
           /\ lastCall'.op \in {"checkExpiredWorkflows", "timer"}
              => \A id \in Created :
                   Cardinality({i \in logged : new[i].payload_hash.workflow_id = id
                                               /\ new[i].payload_hash.action_type = "EXPIRE"})
                   = IF /\ LatestSnapshotIn(db, id).status # "EXPIRED"
                        /\ LatestSnapshotIn(db', id).status = "EXPIRED"
                     THEN 1 ELSE 0
    ]_vars

\* an escalation of a workflow has just been logged after its creation entry
C21_Witness ==
  /\ lastCall.op = "escalateWorkflow"
  /\ lastCall.ret = "true"
  /\ ActionRows(lastCall.wf, "CREATE") # {}
  /\ ActionRows(lastCall.wf, "ESCALATE") # {}
  /\ db.audit[Len(db.audit)].actor = lastCall.args.by

(***************************************************************************)
(* C22.  A workflow is created in status ACTIVE, and no snapshot written   *)
(* by create, release, escalate, review or the sweep has status PENDING.   *)
(***************************************************************************)
C22_NeverPending ==
  \A id \in Created :
     /\ CreationSnapshot(id).status = "ACTIVE"
     /\ \A i \in SnapshotRows(id) : JSONparse(db.audit[i].payload_hash).status # "PENDING"

\* a workflow that has gone through two more transitions after its creation
C22_Witness ==
  \E id \in Created :
     /\ Cardinality(SnapshotRows(id)) >= 3
     /\ CreationSnapshot(id).status = "ACTIVE"
     /\ CurrentStatus(id) # "ACTIVE"

(***************************************************************************)
(* C23.  The sweep is idempotent: a pass over a workflow that is already   *)
(* EXPIRED or RELEASED raises no error and writes no snapshot, no action   *)
(* entry and no notification for it; and a second pass at the same time    *)
(* leaves the store the first pass left.                                   *)
(***************************************************************************)
NotificationsFor(st, id) == SelectSeq(st.notifications, LAMBDA n : n.workflow_id = id)

C23_SweepIdempotent ==
  [][SweepStep
     => /\ \A id \in Created :
             LatestSnapshotIn(db, id).status \in {"EXPIRED", "RELEASED"}
             => /\ lastCall'.ret = "true"
                /\ SnapshotRowsIn(db', id) = SnapshotRowsIn(db, id)
                /\ \A tag \in {"CREATE", "RELEASE", "ESCALATE", "REVIEW", "EXPIRE"} :
                     ActionRowsIn(db', id, tag) = ActionRowsIn(db, id, tag)
                /\ NotificationsFor(db', id) = NotificationsFor(db, id)
        /\ checkExpiredWorkflows(db', now).st = db'
        /\ checkExpiredWorkflows(db', now).ret = "true"
    ]_vars

\* a pass has just run over a released workflow whose expires_at has passed
C23_Witness ==
  /\ lastCall.op = "checkExpiredWorkflows"
  /\ \E id \in Created :
       /\ CurrentStatus(id) = "RELEASED"
       /\ CurrentSnapshot(id).expires_at <= now

(***************************************************************************)
(* C24.  The expiration check scheduled at creation is cancelled by a      *)
(* successful release or escalate: the timer of a workflow that has been   *)
(* released or escalated never fires.                                      *)
(***************************************************************************)
C24_TimerCancelled ==
  [][lastCall'.op = "timer"
     => /\ ActionRows(lastCall'.wf, "RELEASE") = {}
        /\ ActionRows(lastCall'.wf, "ESCALATE") = {}
    ]_vars

(***************************************************************************)
(* C28.  Whenever the current status of a workflow is RELEASED, a          *)
(* declaration-status update to RELEASED has been issued for its           *)
(* declaration.                                                            *)
(***************************************************************************)
C28_ReleasedDeclarationUpdated ==
  \A id \in Created :
     CurrentStatus(id) = "RELEASED"
     => \E i \in 1..Len(db.declUpdates) :
          /\ db.declUpdates[i].declaration_id = CurrentSnapshot(id).declaration_id
          /\ db.declUpdates[i].status = "RELEASED"

(***************************************************************************)
(* C25.  The rules list of a triggered evaluate result holds exactly the   *)
(* enabled rules of the pack that trigger on the context, in ascending     *)
(* priority, rules of equal priority in the order of the pack's rule       *)
(* list; the reason joins their descriptions in that same order.           *)
(***************************************************************************)
TriggeringPositions(pack, context) ==
  {i \in EnabledPositions(pack) : evaluateRule(pack.rules[i], context).triggered}

\* the place of rule i among the triggering rules: by priority, then by position
RankIn(pack, positions, i) ==
  Cardinality({j \in positions :
                 \/ pack.rules[j].priority < pack.rules[i].priority
                 \/ pack.rules[j].priority = pack.rules[i].priority /\ j <= i})

C25_RulesInPriorityOrder ==
  (Evaluated /\ evalOut.result.triggered) =>
    LET result == evalOut.result
        pack == EvaluatedPack
        positions == TriggeringPositions(pack, evalOut.context)
    IN /\ Len(result.rules) = Cardinality(positions)
       /\ \A i \in positions : result.rules[RankIn(pack, positions, i)] = pack.rules[i]
       /\ \A i, j \in 1..Len(result.rules) :
            i < j => result.rules[i].priority <= result.rules[j].priority
       /\ result.reason = JoinReasons([k \in 1..Len(result.rules) |-> result.rules[k].description])

\* three rules triggered, two of them of one priority
C25_Witness ==
  /\ Evaluated
  /\ evalOut.result.triggered
  /\ Len(evalOut.result.rules) >= 3
  /\ \E k \in 1..(Len(evalOut.result.rules) - 1) :
       evalOut.result.rules[k].priority = evalOut.result.rules[k + 1].priority

(***************************************************************************)
(* C26.  The confidence of a triggered result is the largest rule-level    *)
(* confidence among the triggering rules and lies in (0.5, 1]; the         *)
(* confidence of a result that did not trigger is exactly 0.1; so the      *)
(* confidence is always within [0, 1].                                     *)
(***************************************************************************)
RuleConfidence(pack, i, context) == evaluateRule(pack.rules[i], context).confidence

RuleOperations == {"enableRule", "disableRule", "addRule", "removeRule"}
RulesOf(pack) == {pack.rules[i] : i \in 1..Len(pack.rules)}

Served == exchange.via = "createSecureEndpoint"
ServedOptions == Val(exchange.options).options
ServedEnv == Val(exchange.options).env

HoldsValidBearerToken(req, permissions) ==
  /\ IsDefined(req.authorization)
  /\ Val(req.authorization)[1] = "Bearer"
  /\ Val(req.authorization)[2] \in Tokens \ {"forged"}
  /\ LET role == CASE Val(req.authorization)[2] = "adminToken" -> "ADMIN"
                   [] Val(req.authorization)[2] = "valuationToken" -> "VALUATION"
                   [] OTHER -> "EXEC_READ"
     IN \A p \in permissions :
           p \in getDefaultPermissions(role) \/ "*" \in getDefaultPermissions(role)

C29_AuthAlwaysEnforced ==
  (Served /\ ServedOptions.requireAuth /\ exchange.invoked) =>
    /\ HoldsValidBearerToken(Val(exchange.request), ServedOptions.requiredPermissions)
    /\ ServedOptions.requireApiKey
         => /\ validateApiKey(Val(exchange.request), ServedEnv)
            /\ getSecurityHeaders \subseteq Val(exchange.response).headers

(***************************************************************************)
(* C30.  Once a request with Idempotency-Key k for an endpoint has been    *)
(* processed and its response stored, every later request with the same    *)
(* key for that endpoint is answered with the stored response and the      *)
(* wrapped handler does not run again.                                     *)
(***************************************************************************)
C30_SameKeySameResponse ==
  [][\A p \in processed :
        (/\ exchange'.via = "withIdempotency"
         /\ exchange'.request = Some(p.key)
         /\ exchange'.options = Some(p.endpoint))
        => /\ ~exchange'.invoked
           /\ \E q \in processed :
                /\ q.key = p.key
                /\ q.endpoint = p.endpoint
                /\ exchange'.response = Some(Respond(200, q.body))
    ]_vars

====
